---- MODULE Spec2Model ----
(***************************************************************************)
(* A model of the deterministic invariant-matching engine: the plugin      *)
(* registry (services/pluginSystem.ts), the eight invariant plugins        *)
(* (services/plugins/*.ts) and the registry-based dispatcher               *)
(* AxiomPrimeSolver (second class of services/plugins/spectralZeta.ts).    *)
(*                                                                         *)
(* A problem text is represented by what the plugins' matchers read off    *)
(* it: the trigger substrings its lower-cased form includes and the        *)
(* capture groups of each regular expression.  JavaScript values that may  *)
(* be a number, a string or null are records [kind, num, str].             *)
(***************************************************************************)
EXTENDS Integers, Sequences, FiniteSets, TLC

\* ------------------------------------------------------------------ values

\* A JavaScript number (integers only in this model).
Num(n) == [kind |-> "number", num |-> n, str |-> ""]

\* A JavaScript string literal.
Str(s) == [kind |-> "string", num |-> 0, str |-> s]

\* A string built from a number the model does not render digit by digit:
\* the template text and the number it is built from.
Fmt(s, n) == [kind |-> "string", num |-> n, str |-> s]

\* The number NaN.
NaN == [kind |-> "number", num |-> 0, str |-> "NaN"]

\* null, as an answer.
NullAnswer == [kind |-> "null", num |-> 0, str |-> ""]

\* invariantUsed: null
NullTag == "null"

\* A line of text: a template literal and the values interpolated into it.
Text(t, args) == [text |-> t, args |-> args]

POLYNOMIAL == "Polynomial (Linear Reduction)"
COMBINATORIAL == "Combinatorial (Subset S_n)"
DIOPHANTINE == "Diophantine (Frobenius)"
NUMBER_THEORY == "Eulerian Number Theory (Totient/Lucas)"
ROOT_DYNAMICS == "Root Dynamics (Newton Sums)"
SPECTRAL_ZETA == "Spectral Zeta Analysis (Riemann/Euler Score)"
SEQUENCES == "Sequence Analysis (Arithmetic/Geometric)"
FUNCTIONAL_EQ == "Functional Equation (Cauchy/Shifted)"
QUANTUM_FALLBACK == "Quantum Fallback (AI)"
REPEATING_DECIMAL == "Repeating Decimal"
MODULAR == "Modular Arithmetic"
GEOMETRIC == "Geometric"

\* The default of the solver's and the plugins' constructor parameter.
modulo == 100000

\* ----------------------------------------------------------- arithmetic

Abs(x) == IF x < 0 THEN -x ELSE x

\* JavaScript's % on integers: the remainder takes the sign of the dividend.
JsRem(a, m) == IF a < 0 THEN -((-a) % m) ELSE a % m

\* BigInt division: truncation toward zero.
JsDiv(a, b) ==
  LET q == Abs(a) \div Abs(b)
  IN IF (a < 0) = (b < 0) THEN q ELSE -q

RECURSIVE gcdLoop(_, _)
gcdLoop(a, b) == IF b = 0 THEN a ELSE gcdLoop(b, a % b)

\* BaseSolverPlugin.gcd: Euclid on the absolute values.
gcd(a, b) == gcdLoop(Abs(a), Abs(b))

RECURSIVE Pow(_, _)
Pow(b, e) == IF e <= 0 THEN 1 ELSE b * Pow(b, e - 1)

\* ------------------------------------------------------------- Fraction

\* The value standing for the Error the constructor throws on a zero
\* denominator: no Fraction has denominator 0.
DivisionByZero == [numerator |-> 0, denominator |-> 0]

\* The constructor without lines 12-13's sign transfer.
FractionUnsigned(n, d) ==
  IF d = 0 THEN DivisionByZero
  ELSE LET common == gcdLoop(Abs(n), Abs(d))
       IN [numerator |-> JsDiv(n, common), denominator |-> JsDiv(d, common)]

\* new Fraction(n, d): reduced to lowest terms, sign on the numerator.
Fraction(n, d) ==
  IF d = 0 THEN DivisionByZero
  ELSE LET common == gcdLoop(Abs(n), Abs(d))
       IN [numerator |-> JsDiv(IF d < 0 THEN -n ELSE n, common),
           denominator |-> JsDiv(Abs(d), common)]

FractionOfInt(n) == Fraction(n, 1)

add(x, y) ==
  Fraction(x.numerator * y.denominator + y.numerator * x.denominator,
           x.denominator * y.denominator)

\* sub with the operands exchanged.
subReversed(x, y) ==
  Fraction(y.numerator * x.denominator - x.numerator * y.denominator,
           x.denominator * y.denominator)

sub(x, y) ==
  Fraction(x.numerator * y.denominator - y.numerator * x.denominator,
           x.denominator * y.denominator)

mul(x, y) == Fraction(x.numerator * y.numerator, x.denominator * y.denominator)

\* div with the two products exchanged.
divSwapped(x, y) == Fraction(x.denominator * y.numerator, x.numerator * y.denominator)

div(x, y) == Fraction(x.numerator * y.denominator, x.denominator * y.numerator)

\* Math.floor(fraction.toNumber()), exact while the quotient is exactly
\* representable.
floorToNumber(x) == x.numerator \div x.denominator

\* toString: "n" when the denominator is 1, "n/d" otherwise.
toString(x) ==
  IF x.denominator = 1 THEN Text("${numerator}", <<Num(x.numerator)>>)
  ELSE Text("${numerator}/${denominator}", <<Num(x.numerator), Num(x.denominator)>>)

\* ------------------------------------------------------- plugin contract

\* SolverLog; the timestamp is the wall clock read when the entry is made.
createLog(message, type, now) ==
  [timestamp |-> now, message |-> message, type |-> type]

\* A SolverResult whose invariantUsed is left null.
OutcomeUntagged(answer, invariantUsed, steps, logs) ==
  [answer |-> answer, invariantUsed |-> NullTag, steps |-> steps, logs |-> logs]

\* SolverResult
Outcome(answer, invariantUsed, steps, logs) ==
  [answer |-> answer, invariantUsed |-> invariantUsed, steps |-> steps, logs |-> logs]

NoOutcome == Outcome(NullAnswer, NullTag, <<>>, <<>>)

\* What a call of plugin.solve(problem) does: return null, return a
\* SolverResult, or throw.
ReturnNull == [kind |-> "null", result |-> NoOutcome]
Return(r) == [kind |-> "result", result |-> r]
Throw == [kind |-> "throw", result |-> NoOutcome]

\* triggers.some(t => p.includes(t))
IncludesSome(f, triggers) == f.has \cap triggers # {}

\* -------------------------------------------------------------- plugins

SpectralTriggers ==
  {"spectral score", "zeta sum", "riemann", "euler score", "critical line", "frequency t"}

\* 14.1347, in ten-thousandths like every frequency of the model.
DefaultT == 141347

\* SpectralZetaPlugin.solve.  The 400-term floating-point sum is a function
\* of t alone; its renderings are kept as strings built from t.
SpectralZetaSolve(f, now) ==
  IF ~IncludesSome(f, SpectralTriggers) THEN ReturnNull
  ELSE LET t == IF f.tMatch # <<>> THEN f.tMatch[1]
                ELSE IF f.floatMatch # <<>> THEN f.floatMatch[1]
                ELSE DefaultT
       IN Return(Outcome(
            Fmt("score.toFixed(4)", t),
            SPECTRAL_ZETA,
            << Text("Analyzing Dirichlet series Re(s)=0.5", <<>>),
               Text("Extracted frequency parameter t=${t}", <<Num(t)>>),
               Text("Computing partial Zeta sum for n=[1, ${limit}]", <<Num(400)>>),
               Text("Calculated magnitude: ${absSum.toFixed(6)}", <<Num(t)>>),
               Text("Spectral score resolved: ${score.toFixed(4)}", <<Num(t)>>) >>,
            << createLog(Text("Analysis: Zeta convergence engine engaged for t=${t}", <<Num(t)>>), "info", now),
               createLog(Text("Score resolved: ${score.toFixed(4)}", <<Num(t)>>), "success", now) >>))

\* getPolynomialAt without the linear part of line 143.
getPolynomialAtNoLinear(a, x1, y1, x2, y2, tx) ==
  LET r1 == FractionOfInt(y1 - a * x1 * x1)
      r2 == FractionOfInt(y2 - a * x2 * x2)
  IN IF x1 = x2 THEN FractionOfInt(0)
     ELSE LET b == div(sub(r1, r2), FractionOfInt(x1 - x2))
              c == sub(r1, mul(b, FractionOfInt(x1)))
              quadPart == FractionOfInt(a * tx * tx)
          IN add(quadPart, c)

\* getPolynomialAt: the quadratic with leading coefficient a through
\* (x1,y1) and (x2,y2), at tx.
getPolynomialAt(a, x1, y1, x2, y2, tx) ==
  LET r1 == FractionOfInt(y1 - a * x1 * x1)
      r2 == FractionOfInt(y2 - a * x2 * x2)
  IN IF x1 = x2 THEN FractionOfInt(0)
     ELSE LET b == div(sub(r1, r2), FractionOfInt(x1 - x2))
              c == sub(r1, mul(b, FractionOfInt(x1)))
              quadPart == FractionOfInt(a * tx * tx)
              linPart == mul(b, FractionOfInt(tx))
          IN add(add(quadPart, linPart), c)

\* PolynomialPlugin.solve
PolynomialSolve(f, now) ==
  IF f.has \cap {"quadratic", "polynomial"} = {} THEN ReturnNull
  ELSE IF f.coeffMatch = <<>> \/ Len(f.points) < 2 THEN ReturnNull
  ELSE LET targetX == IF f.targetMatch # <<>> THEN f.targetMatch[1] ELSE 0
           a1 == f.coeffMatch[1]
           a2 == f.coeffMatch[2]
           x1 == f.points[1][1]
           y1 == f.points[1][2]
           x2 == f.points[2][1]
           y2 == f.points[2][2]
           pVal == getPolynomialAt(a1, x1, y1, x2, y2, targetX)
           qVal == getPolynomialAt(a2, x1, y1, x2, y2, targetX)
           total == add(pVal, qVal)
       IN Return(Outcome(
            Num(JsRem(floorToNumber(total), modulo)),
            POLYNOMIAL,
            << Text("Mapping quadratic coefficients ${a1}, ${a2}", <<Num(a1), Num(a2)>>),
               Text("Evaluating interpolation points (${x1}, ${y1}), (${x2}, ${y2})",
                    <<Num(x1), Num(y1), Num(x2), Num(y2)>>),
               Text("P(${targetX}) = ${pVal.toString()}", <<Num(targetX)>> \o toString(pVal).args),
               Text("Q(${targetX}) = ${qVal.toString()}", <<Num(targetX)>> \o toString(qVal).args),
               Text("Resulting sum: ${total}", toString(total).args) >>,
            << createLog(Text("Analysis: Polynomial reduction resolved at x=${targetX}", <<Num(targetX)>>), "info", now),
               createLog(Text("Evaluation successful.", <<>>), "success", now) >>))

\* power(a, b, m): binary square-and-multiply; the result for b <= 0 is 1.
RECURSIVE powerLoop(_, _, _, _)
powerLoop(res, a, b, m) ==
  IF b <= 0 THEN res
  ELSE powerLoop(IF b % 2 = 1 THEN (res * a) % m ELSE res, (a * a) % m, b \div 2, m)

power(a, b, m) == powerLoop(1, a % m, b, m)

\* The running products of nCrModP.
RECURSIVE numLoop(_, _, _, _, _)
numLoop(num, i, n, r, p) ==
  IF i >= r THEN num ELSE numLoop((num * (n - i)) % p, i + 1, n, r, p)

RECURSIVE denLoop(_, _, _, _)
denLoop(den, i, r, p) ==
  IF i > r THEN den ELSE denLoop((den * i) % p, i + 1, r, p)

\* nCrModP multiplying by the denominator itself, not by its inverse.
nCrModPNoInverse(n, r, p) ==
  IF r = 0 THEN 1
  ELSE IF r > n THEN 0
  ELSE (numLoop(1, 0, n, r, p) * denLoop(1, 1, r, p)) % p

\* nCrModP(n, r, p), for p > 0
nCrModP(n, r, p) ==
  IF r = 0 THEN 1
  ELSE IF r > n THEN 0
  ELSE (numLoop(1, 0, n, r, p) * power(denLoop(1, 1, r, p), p - 2, p)) % p

\* lucas(n, k, p), for p > 0
RECURSIVE lucas(_, _, _)
lucas(n, k, p) ==
  IF k = 0 THEN 1
  ELSE (lucas(n \div p, k \div p, p) * nCrModP(n % p, k % p, p)) % p

\* The totient loop: trial division by i while i*i <= temp.
RECURSIVE stripFactor(_, _)
stripFactor(temp, i) == IF temp % i = 0 THEN stripFactor(temp \div i, i) ELSE temp

RECURSIVE totientLoop(_, _, _)
totientLoop(result, temp, i) ==
  IF i * i > temp THEN (IF temp > 1 THEN result - (result \div temp) ELSE result)
  ELSE IF temp % i = 0
       THEN totientLoop(result - (result \div i), stripFactor(temp, i), i + 1)
       ELSE totientLoop(result, temp, i + 1)

totient(n) == totientLoop(n, n, 2)

\* NumberTheoryPlugin.solve
NumberTheorySolve(f, now) ==
  IF f.binomialMatch # <<>>
  THEN LET n == f.binomialMatch[1]
           k == f.binomialMatch[2]
           pVal == f.binomialMatch[3]
           \* a remainder by 0 is NaN, and NaN stays NaN
           ans == IF pVal = 0 THEN (IF k = 0 THEN Num(1) ELSE NaN)
                  ELSE Num(lucas(n, k, pVal))
       IN Return(Outcome(
            ans,
            NUMBER_THEORY,
            << Text("Applying Lucas Theorem for n=${n}, k=${k}, mod ${pVal}", <<Num(n), Num(k), Num(pVal)>>),
               Text("Base-${pVal} decomposition successful", <<Num(pVal)>>),
               Text("Modular congruence: ${ans}", <<ans>>) >>,
            << createLog(Text("Analysis: Modular binomial reduction completed.", <<>>), "info", now) >>))
  ELSE IF ("totient" \in f.has \/ "phi" \in f.has
           \/ ("relatively prime" \in f.has /\ "less than" \in f.has))
          /\ f.firstNumber # <<>>
  THEN LET n == f.firstNumber[1]
           result == totient(n)
       IN Return(Outcome(
            Num(result),
            NUMBER_THEORY,
            << Text("Euler Totient analysis for n=${n}", <<Num(n)>>),
               Text("Prime factorization complete", <<>>),
               Text("phi(${n}) = ${result}", <<Num(n), Num(result)>>) >>,
            << createLog(Text("Analysis: Eulerian totient calculated.", <<>>), "info", now) >>))
  ELSE ReturnNull

CombinatorialTriggers == {"subset", "intersect", "s_n", "ordered pair", "set s"}

\* CombinatorialPlugin.solve.  4n ** BigInt(n - 1) throws a RangeError for a
\* negative exponent, that is for n = 0.
CombinatorialSolve(f, now) ==
  IF ~IncludesSome(f, CombinatorialTriggers) THEN ReturnNull
  ELSE IF f.nMatch = <<>> THEN ReturnNull
  ELSE LET n == f.nMatch[1]
           result == n * Pow(4, n - 1)
       IN IF n - 1 < 0 THEN Throw
          ELSE Return(Outcome(
                 Num(JsRem(result, modulo)),
                 COMBINATORIAL,
                 << Text("Subset intersection identity applied for n=${n}", <<Num(n)>>),
                    Text("Identity sum |A n B| = n * 4^(n-1)", <<>>),
                    Text("Result: ${result}", <<Num(result)>>) >>,
                 << createLog(Text("Analysis: Combinatorial identity verified.", <<>>), "info", now),
                    createLog(Text("Result mapped to modulo space.", <<>>), "success", now) >>))

DiophantineTriggers ==
  {"largest integer", "cannot be written", "cannot be expressed", "impossible sum",
   "chicken mcnugget", "frobenius"}

\* The filter with its lower limit at 1: nums.filter(n => n >= 1 && n <= 500)
RECURSIVE filterCoeffsFromOne(_)
filterCoeffsFromOne(nums) ==
  IF nums = <<>> THEN <<>>
  ELSE (IF Head(nums) >= 1 /\ Head(nums) <= 500 THEN <<Head(nums)>> ELSE <<>>)
       \o filterCoeffsFromOne(Tail(nums))

\* nums.filter(n => n >= 2 && n <= 500)
RECURSIVE filterCoeffs(_)
filterCoeffs(nums) ==
  IF nums = <<>> THEN <<>>
  ELSE (IF Head(nums) >= 2 /\ Head(nums) <= 500 THEN <<Head(nums)>> ELSE <<>>)
       \o filterCoeffs(Tail(nums))

\* DiophantinePlugin.solve without its test of the gcd: the identity is
\* applied to every pair.
DiophantineSolveAnyPair(f, now) ==
  IF ~IncludesSome(f, DiophantineTriggers) THEN ReturnNull
  ELSE LET coeffs == filterCoeffs(f.nums)
       IN IF Len(coeffs) < 2 THEN ReturnNull
          ELSE LET a == coeffs[1]
                   b == coeffs[2]
                   result == (a * b) - a - b
               IN IF FALSE
                  THEN Return(Outcome(
                         Str("Infinity"),
                         DIOPHANTINE,
                         << Text("Gaps are infinite for non-coprime generators ${a}, ${b}", <<Num(a), Num(b)>>) >>,
                         << createLog(Text("Analysis: Non-coprime boundary detected.", <<>>), "info", now) >>))
                  ELSE Return(Outcome(
                         Num(JsRem(result, modulo)),
                         DIOPHANTINE,
                         << Text("Applying Frobenius identity for {${a}, ${b}}", <<Num(a), Num(b)>>),
                            Text("G(a,b) = ab - a - b", <<>>),
                            Text("Outcome: ${result}", <<Num(result)>>) >>,
                         << createLog(Text("Analysis: Diophantine boundary resolved.", <<>>), "info", now),
                            createLog(Text("Calculation complete.", <<>>), "success", now) >>))

\* DiophantinePlugin.solve
DiophantineSolve(f, now) ==
  IF ~IncludesSome(f, DiophantineTriggers) THEN ReturnNull
  ELSE LET coeffs == filterCoeffs(f.nums)
       IN IF Len(coeffs) < 2 THEN ReturnNull
          ELSE LET a == coeffs[1]
                   b == coeffs[2]
                   result == (a * b) - a - b
               IN IF gcd(a, b) # 1
                  THEN Return(Outcome(
                         Str("Infinity"),
                         DIOPHANTINE,
                         << Text("Gaps are infinite for non-coprime generators ${a}, ${b}", <<Num(a), Num(b)>>) >>,
                         << createLog(Text("Analysis: Non-coprime boundary detected.", <<>>), "info", now) >>))
                  ELSE Return(Outcome(
                         Num(JsRem(result, modulo)),
                         DIOPHANTINE,
                         << Text("Applying Frobenius identity for {${a}, ${b}}", <<Num(a), Num(b)>>),
                            Text("G(a,b) = ab - a - b", <<>>),
                            Text("Outcome: ${result}", <<Num(result)>>) >>,
                         << createLog(Text("Analysis: Diophantine boundary resolved.", <<>>), "info", now),
                            createLog(Text("Calculation complete.", <<>>), "success", now) >>))

\* SequencesPlugin.solve; n/2 * (2a + (n-1)d) is an integer, n(n-1) being even.
SequencesSolve(f, now) ==
  IF f.has \cap {"progression", "arithmetic series", "geometric series"} = {} THEN ReturnNull
  ELSE IF f.arithMatch = <<>> THEN ReturnNull
  ELSE LET a == f.arithMatch[1]
           d == f.arithMatch[2]
           n == f.arithMatch[3]
           sum == (n * (2 * a + (n - 1) * d)) \div 2
       IN Return(Outcome(
            Num(sum),
            SEQUENCES,
            << Text("Arithmetic Progression: a=${a}, d=${d}, n=${n}", <<Num(a), Num(d), Num(n)>>),
               Text("Sum Formula: n/2 * (2a + (n-1)d)", <<>>),
               Text("Result: ${sum}", <<Num(sum)>>) >>,
            << createLog(Text("Analysis: Sequence summation complete.", <<>>), "info", now) >>))

\* The digits of a capture, its sign dropped.
Unsigned(c) == c.digits

\* A capture [+-]\s*\d* with its blanks removed: a sign, then digits or none.
Signed(c) == IF c.sign = "-" THEN -c.digits ELSE c.digits

\* RootDynamicsPlugin.solve.  parseInt of a bare sign is NaN.
RootDynamicsSolve(f, now) ==
  IF "root" \notin f.has THEN ReturnNull
  ELSE IF f.polyMatch = <<>> THEN ReturnNull
  ELSE LET bStr == f.polyMatch[1]
           cStr == f.polyMatch[2]
           b == IF ~bStr.hasDigits THEN (IF bStr.sign = "+" THEN 1 ELSE -1) ELSE Signed(bStr)
           c == IF cStr.hasDigits THEN Num(Signed(cStr)) ELSE NaN
           e1 == -b
           e2 == c
           sumSquares == IF e2 = NaN THEN NaN ELSE Num(e1 * e1 - 2 * e2.num)
       IN IF "sum of the roots" \in f.has
          THEN Return(Outcome(
                 Num(e1),
                 ROOT_DYNAMICS,
                 << Text("Quadratic: x^2 + ${b}x + ${c} = 0", <<Num(b), c>>),
                    Text("Vieta Identity: sum r = -b/a = ${e1}", <<Num(e1)>>) >>,
                 << createLog(Text("Analysis: Vieta's identity applied.", <<>>), "info", now) >>))
          ELSE IF "sum of the squares" \in f.has
          THEN Return(Outcome(
                 sumSquares,
                 ROOT_DYNAMICS,
                 << Text("Quadratic: x^2 + ${b}x + ${c} = 0", <<Num(b), c>>),
                    Text("Newton's Sum Identity: sum r^2 = (sum r)^2 - 2 sum r1 r2", <<>>),
                    Text("Calculation: ${e1}^2 - 2(${e2}) = ${sumSquares}", <<Num(e1), e2, sumSquares>>) >>,
                 << createLog(Text("Analysis: Newton sums applied.", <<>>), "info", now) >>))
          ELSE ReturnNull

\* FunctionalEquationPlugin.solve
FunctionalEquationSolve(f, now) ==
  IF {"f(m)", "f(n)", "f(m + n + mn)"} \subseteq f.has /\ f.fTarget # <<>>
  THEN LET n == f.fTarget[1]
       IN Return(Outcome(
            Fmt("c * log(${n + 1})", n + 1),
            FUNCTIONAL_EQ,
            << Text("Shifted Cauchy equation identified", <<>>),
               Text("Substitution: g(x) = f(x-1)", <<>>),
               Text("Logarithmic solution space detected for x+1", <<>>) >>,
            << createLog(Text("Analysis: Cauchy mapping complete.", <<>>), "info", now) >>))
  ELSE ReturnNull

\* -------------------------------------------------------- problem texts

\* A text none of the matchers reads anything off.
NoMatch ==
  [text |-> "", has |-> {}, tMatch |-> <<>>, floatMatch |-> <<>>, coeffMatch |-> <<>>,
   points |-> <<>>, targetMatch |-> <<>>, binomialMatch |-> <<>>, firstNumber |-> <<>>,
   nums |-> <<>>, nMatch |-> <<>>, polyMatch |-> <<>>, arithMatch |-> <<>>, fTarget |-> <<>>,
   setNums |-> <<>>, elementMatch |-> <<>>, sPattern |-> <<>>, nEqPattern |-> <<>>,
   setSize |-> <<>>, modMatch |-> <<>>]

PolynomialText ==
  [NoMatch EXCEPT
     !.text = "Quadratic polynomials P(x) and Q(x) have leading coefficients 2 and -2. They pass through (16,54) and (20,53). Find P(0)+Q(0).",
     !.has = {"quadratic", "polynomial"},
     !.coeffMatch = <<2, -2>>,
     !.targetMatch = <<0>>,
     !.firstNumber = <<2>>,
     !.nums = <<2, 2, 16, 54, 20, 53, 0, 0>>,
     !.points = <<<<16, 54>>, <<20, 53>>>>]

FrobeniusText ==
  [NoMatch EXCEPT
     !.text = "What is the largest integer that cannot be written as a sum of multiples of 6 and 11?",
     !.has = {"largest integer", "cannot be written"},
     !.firstNumber = <<6>>,
     !.nums = <<6, 11>>]

LucasText ==
  [NoMatch EXCEPT
     !.text = "Find (10 choose 5) mod 7.",
     !.binomialMatch = <<10, 5, 7>>,
     !.firstNumber = <<10>>,
     !.nums = <<10, 5, 7>>]

RootsText ==
  [NoMatch EXCEPT
     !.text = "Find the sum of the squares of the roots of x^2 - 5x + 6 = 0.",
     !.has = {"root", "sum of the squares"},
     !.firstNumber = <<2>>,
     !.nums = <<2, 6, 0>>,
     !.polyMatch = <<[sign |-> "-", hasDigits |-> TRUE, digits |-> 5], [sign |-> "+", hasDigits |-> TRUE, digits |-> 6]>>]

ApplesText ==
  [NoMatch EXCEPT
     !.text = "How many apples are in a basket if I have 2 and give 1 away?",
     !.firstNumber = <<2>>,
     !.nums = <<2, 1>>]

BothText ==
  [NoMatch EXCEPT
     !.text = "Quadratic polynomials P(x) and Q(x) have leading coefficients 2 and -2. They pass through (16,54) and (20,53). Find P(0)+Q(0) over the subsets counted for n = 3.",
     !.has = {"quadratic", "polynomial", "subset"},
     !.coeffMatch = <<2, -2>>,
     !.targetMatch = <<0>>,
     !.firstNumber = <<2>>,
     !.nums = <<2, 2, 16, 54, 20, 53, 0, 0, 3>>,
     !.nMatch = <<3>>,
     !.points = <<<<16, 54>>, <<20, 53>>>>]

EmptySetText ==
  [NoMatch EXCEPT
     !.text = "Count the intersections of all ordered pairs of subsets for n = 0.",
     !.has = {"subset", "intersect", "ordered pair"},
     !.firstNumber = <<0>>,
     !.nums = <<0>>,
     !.nMatch = <<0>>]

\* The texts given to solve.
Problems ==
  {PolynomialText, FrobeniusText, LucasText, RootsText, ApplesText, BothText, EmptySetText}

ProblemOf(text) == CHOOSE f \in Problems : f.text = text

\* ------------------------------------------------------- plugin objects

\* An ISolverPlugin: its name and the class that implements solve.
Plugin(name, impl) == [name |-> name, impl |-> impl]

\* Plugins written against ISolverPlugin and registered at run time: one
\* whose solve always throws, one returning the legacy no-match value
\* (answer 0, no invariant), one returning the string "0" with no
\* invariant.
CustomSolve(impl, f, now) ==
  CASE impl = "Thrower" -> Throw
    [] impl = "LegacyZero" -> Return(Outcome(Num(0), NullTag, <<>>, <<>>))
    [] impl = "StringZero" ->
         Return(Outcome(Str("0"), NullTag, <<Text("custom", <<>>)>>,
                        <<createLog(Text("custom", <<>>), "info", now)>>))
    [] OTHER -> ReturnNull

\* plugin.invariantType, the tag the class declares
invariantType(plugin) ==
  CASE plugin.impl = "SpectralZetaPlugin" -> SPECTRAL_ZETA
    [] plugin.impl = "PolynomialPlugin" -> POLYNOMIAL
    [] plugin.impl = "NumberTheoryPlugin" -> NUMBER_THEORY
    [] plugin.impl = "CombinatorialPlugin" -> COMBINATORIAL
    [] plugin.impl = "DiophantinePlugin" -> DIOPHANTINE
    [] plugin.impl = "SequencesPlugin" -> SEQUENCES
    [] plugin.impl = "RootDynamicsPlugin" -> ROOT_DYNAMICS
    [] plugin.impl = "FunctionalEquationPlugin" -> FUNCTIONAL_EQ
    [] OTHER -> QUANTUM_FALLBACK

\* plugin.solve(problem)
PluginSolve(plugin, f, now) ==
  CASE plugin.impl = "SpectralZetaPlugin" -> SpectralZetaSolve(f, now)
    [] plugin.impl = "PolynomialPlugin" -> PolynomialSolve(f, now)
    [] plugin.impl = "NumberTheoryPlugin" -> NumberTheorySolve(f, now)
    [] plugin.impl = "CombinatorialPlugin" -> CombinatorialSolve(f, now)
    [] plugin.impl = "DiophantinePlugin" -> DiophantineSolve(f, now)
    [] plugin.impl = "SequencesPlugin" -> SequencesSolve(f, now)
    [] plugin.impl = "RootDynamicsPlugin" -> RootDynamicsSolve(f, now)
    [] plugin.impl = "FunctionalEquationPlugin" -> FunctionalEquationSolve(f, now)
    [] OTHER -> CustomSolve(plugin.impl, f, now)

\* ------------------------------------------------------- PluginRegistry
\* The Map<string, ISolverPlugin> is the sequence of its entries in
\* insertion order.

RECURSIVE IndexOf(_, _, _)
IndexOf(map, name, i) ==
  IF i > Len(map) THEN 0
  ELSE IF map[i].name = name THEN i
  ELSE IndexOf(map, name, i + 1)

\* Map.prototype.has
hasPlugin(map, name) == IndexOf(map, name, 1) # 0

\* register as an array push would do it: a second entry under the name.
registerPush(map, plugin) == Append(map, plugin)

\* register as delete-then-set would do it: the name moves to the end.
registerMoveLast(map, plugin) ==
  SelectSeq(map, LAMBDA e : e.name # plugin.name) \o <<plugin>>

\* register with a new key put first.
registerFirst(map, plugin) ==
  LET i == IndexOf(map, plugin.name, 1)
  IN IF i = 0 THEN <<plugin>> \o map ELSE [map EXCEPT ![i] = plugin]

\* Map.prototype.set: an existing key keeps its place and takes the new
\* value, a new key goes last.
register(map, plugin) ==
  LET i == IndexOf(map, plugin.name, 1)
  IN IF i = 0 THEN Append(map, plugin) ELSE [map EXCEPT ![i] = plugin]

\* Map.prototype.delete: the map without the key.
unregister(map, name) ==
  LET i == IndexOf(map, name, 1)
  IN IF i = 0 THEN map ELSE SubSeq(map, 1, i - 1) \o SubSeq(map, i + 1, Len(map))

\* Map.prototype.clear
clear(map) == <<>>

RECURSIVE Reverse(_)
Reverse(q) == IF q = <<>> THEN <<>> ELSE Append(Reverse(Tail(q)), Head(q))

\* The listing newest first.
getAllPluginsReversed(map) == Reverse(map)

\* Array.from(this.plugins.values())
getAllPlugins(map) == map

\* Array.from(this.plugins.keys())
getPluginNames(map) == [i \in 1..Len(map) |-> map[i].name]

\* Map.prototype.get; undefined is the plugin with no name.
Undefined == Plugin("undefined", "undefined")

getPlugin(map, name) ==
  LET i == IndexOf(map, name, 1)
  IN IF i = 0 THEN Undefined ELSE map[i]

\* ------------------------------------------------------ AxiomPrimeSolver

RECURSIVE registerAll(_, _)
registerAll(map, list) ==
  IF list = <<>> THEN map ELSE registerAll(register(map, Head(list)), Tail(list))

\* The order in which the registry-less solver (solverEngine.ts) tries the
\* same eight: root dynamics before sequences.
initializePluginsOldOrder ==
  registerAll(<<>>,
    << Plugin("spectral-zeta", "SpectralZetaPlugin"),
       Plugin("polynomial", "PolynomialPlugin"),
       Plugin("number-theory", "NumberTheoryPlugin"),
       Plugin("combinatorial", "CombinatorialPlugin"),
       Plugin("diophantine", "DiophantinePlugin"),
       Plugin("root-dynamics", "RootDynamicsPlugin"),
       Plugin("sequences", "SequencesPlugin"),
       Plugin("functional-equation", "FunctionalEquationPlugin") >>)

\* The registry after the constructor has run initializePlugins.
initializePlugins ==
  registerAll(<<>>,
    << Plugin("spectral-zeta", "SpectralZetaPlugin"),
       Plugin("polynomial", "PolynomialPlugin"),
       Plugin("number-theory", "NumberTheoryPlugin"),
       Plugin("combinatorial", "CombinatorialPlugin"),
       Plugin("diophantine", "DiophantinePlugin"),
       Plugin("sequences", "SequencesPlugin"),
       Plugin("root-dynamics", "RootDynamicsPlugin"),
       Plugin("functional-equation", "FunctionalEquationPlugin") >>)

\* The filter without its invariant test: result && result.answer !== 0
AcceptedIgnoringTag(r) == r.kind = "result" /\ r.result.answer # Num(0)

\* result && (result.answer !== 0 || result.invariantUsed !== null)
Accepted(r) ==
  r.kind = "result" /\ (r.result.answer # Num(0) \/ r.result.invariantUsed # NullTag)

\* The no-match outcome with createLog's default severity.
FallbackInfo(now) ==
  Outcome(Num(0), NullTag,
          <<Text("No deterministic invariant found. Switching to stochastic logic engine.", <<>>)>>,
          <<createLog(Text("Analysis: Deterministic bypass. Engaging Gemini engine.", <<>>), "info", now)>>)

\* The no-match outcome with the time of the call in its step.
FallbackTimed(now) ==
  Outcome(Num(0), NullTag,
          <<Text("No deterministic invariant found at ${time}.", <<Num(now)>>)>>,
          <<createLog(Text("Analysis: Deterministic bypass. Engaging Gemini engine.", <<>>), "warning", now)>>)

\* The outcome returned when the loop ends without a return.
Fallback(now) ==
  Outcome(Num(0), NullTag,
          <<Text("No deterministic invariant found. Switching to stochastic logic engine.", <<>>)>>,
          <<createLog(Text("Analysis: Deterministic bypass. Engaging Gemini engine.", <<>>), "warning", now)>>)

\* The loop without its try/catch: a plugin's error leaves solve.
RECURSIVE solveFromNoCatch(_, _, _, _)
solveFromNoCatch(list, i, f, now) ==
  IF i > Len(list)
  THEN [outcome |-> Fallback(now), threw |-> FALSE, invoked |-> <<>>]
  ELSE LET r == PluginSolve(list[i], f, now)
           rest == solveFromNoCatch(list, i + 1, f, now)
       IN IF r.kind = "throw"
          THEN [outcome |-> NoOutcome, threw |-> TRUE, invoked |-> <<list[i].name>>]
          ELSE IF Accepted(r)
          THEN [outcome |-> r.result, threw |-> FALSE, invoked |-> <<list[i].name>>]
          ELSE [rest EXCEPT !.invoked = <<list[i].name>> \o @]

\* The loop with a catch block that records the failure in the logs of
\* the outcome it goes on to return.
RECURSIVE solveFromLogging(_, _, _, _)
solveFromLogging(list, i, f, now) ==
  IF i > Len(list)
  THEN [outcome |-> Fallback(now), threw |-> FALSE, invoked |-> <<>>]
  ELSE LET r == PluginSolve(list[i], f, now)
           rest == solveFromLogging(list, i + 1, f, now)
       IN IF r.kind = "throw"
          THEN [rest EXCEPT
                  !.invoked = <<list[i].name>> \o @,
                  !.outcome.logs =
                    <<createLog(Text("Plugin ${name} failed", <<Str(list[i].name)>>), "error", now)>> \o @]
          ELSE IF Accepted(r)
          THEN [outcome |-> r.result, threw |-> FALSE, invoked |-> <<list[i].name>>]
          ELSE [rest EXCEPT !.invoked = <<list[i].name>> \o @]

\* The loop of solve from the i-th plugin on: what is returned, whether
\* solve itself threw, and the names of the plugins whose solve was called.
RECURSIVE solveFrom(_, _, _, _)
solveFrom(list, i, f, now) ==
  IF i > Len(list)
  THEN [outcome |-> Fallback(now), threw |-> FALSE, invoked |-> <<>>]
  ELSE LET r == PluginSolve(list[i], f, now)
           rest == solveFrom(list, i + 1, f, now)
       IN IF r.kind = "throw"
          THEN [rest EXCEPT !.invoked = <<list[i].name>> \o @]
          ELSE IF Accepted(r)
          THEN [outcome |-> r.result, threw |-> FALSE, invoked |-> <<list[i].name>>]
          ELSE [rest EXCEPT !.invoked = <<list[i].name>> \o @]

\* AxiomPrimeSolver.solve
solve(map, f, now) == solveFrom(getAllPlugins(map), 1, f, now)

\* --------------------------------------------------------- state machine

\* How many registry changes a run makes, and how far the clock runs.
MaxMutations == 2
MaxClock == 1

\* The plugin objects handed to registerPlugin: replacements for built-in
\* names, a new name, and a built-in registered again.
PluginPool ==
  { Plugin("polynomial", "Thrower"),
    Plugin("spectral-zeta", "LegacyZero"),
    Plugin("custom", "StringZero"),
    Plugin("polynomial", "PolynomialPlugin") }

\* The names handed to unregisterPlugin.
NamePool == {"polynomial", "number-theory", "custom"}

VARIABLES
  plugins,     \* PluginRegistry.plugins of the solver's registry
  clock,       \* the wall clock, in the unit toLocaleTimeString shows
  mutations,   \* the registry changes made so far
  last,        \* the last call made on the solver and what it returned
  calls,       \* the solve calls in flight on the solver, by call
  app,         \* the console component: its state and the request it serves
  unit,        \* the last call made on a plugin or a Fraction, and its result
  diag         \* the diagnostic harness: the results pushed so far, the report

vars == <<plugins, clock, mutations, last, calls, app, unit, diag>>

\* What the solver's own operations leave alone.
restVars == <<calls, app, unit, diag>>

\* No call yet: the solver has just been constructed.
Constructed ==
  [op |-> "new", plugin |-> Undefined, had |-> FALSE, ret |-> FALSE,
   text |-> "", now |-> 0, since |-> -1,
   outcome |-> NoOutcome, threw |-> FALSE, invoked |-> <<>>]

\* Nothing in flight, nothing requested, nothing called, nothing run.
NoCalls == <<>>
AppIdle ==
  [pc |-> "idle", handler |-> "handleSolve", problem |-> NoMatch, image |-> FALSE,
   isSolving |-> FALSE, result |-> <<>>, allLogs |-> <<>>, history |-> <<>>,
   requests |-> 0, consulted |-> FALSE, local |-> <<>>, fallbackCalled |-> FALSE,
   service |-> ""]
NoUnit == [op |-> "none"]
NoDiag == [pc |-> "idle"]

Init ==
  /\ plugins = initializePlugins
  /\ clock = 0
  /\ mutations = 0
  /\ last = Constructed
  /\ calls = NoCalls
  /\ app = AppIdle
  /\ unit = NoUnit
  /\ diag = NoDiag

\* solver.registerPlugin(plugin), or getRegistry().register(plugin)
RegisterPlugin(plugin) ==
  /\ mutations < MaxMutations
  /\ plugins' = register(plugins, plugin)
  /\ mutations' = mutations + 1
  /\ last' = [Constructed EXCEPT !.op = "register", !.plugin = plugin,
                                 !.had = hasPlugin(plugins, plugin.name)]
  /\ UNCHANGED clock
  /\ UNCHANGED restVars

\* solver.unregisterPlugin(name); Map.delete returns whether the key was there.
UnregisterPlugin(name) ==
  /\ mutations < MaxMutations
  /\ plugins' = unregister(plugins, name)
  /\ mutations' = mutations + 1
  /\ last' = [Constructed EXCEPT !.op = "unregister", !.plugin = Plugin(name, ""),
                                 !.had = hasPlugin(plugins, name),
                                 !.ret = hasPlugin(plugins, name)]
  /\ UNCHANGED clock
  /\ UNCHANGED restVars

\* solver.getRegistry().clear()
Clear ==
  /\ mutations < MaxMutations
  /\ plugins' = clear(plugins)
  /\ mutations' = mutations + 1
  /\ last' = [Constructed EXCEPT !.op = "clear"]
  /\ UNCHANGED clock
  /\ UNCHANGED restVars

\* solve that drops from the registry the plugins whose solve it called.
SolveDropping(f, now) ==
  /\ now >= clock
  /\ clock' = now
  /\ LET run == solve(plugins, f, now)
     IN /\ last' = [Constructed EXCEPT
                      !.op = "solve", !.text = f.text, !.now = now,
                      !.since = IF last.op = "solve" /\ last.text = f.text THEN last.now ELSE -1,
                      !.outcome = run.outcome, !.threw = run.threw, !.invoked = run.invoked]
        /\ plugins' = SubSeq(plugins, Len(run.invoked) + 1, Len(plugins))
  /\ UNCHANGED mutations
  /\ UNCHANGED restVars

\* solver.solve(problem), called when the clock shows now.  The body has no
\* await: it runs to its return without interleaving.
Solve(f, now) ==
  /\ now >= clock
  /\ clock' = now
  /\ LET run == solve(plugins, f, now)
     IN last' = [Constructed EXCEPT
                   !.op = "solve", !.text = f.text, !.now = now,
                   !.since = IF last.op = "solve" /\ last.text = f.text THEN last.now ELSE -1,
                   !.outcome = run.outcome, !.threw = run.threw, !.invoked = run.invoked]
  /\ UNCHANGED <<plugins, mutations>>
  /\ UNCHANGED restVars

Next ==
  \/ \E plugin \in PluginPool : RegisterPlugin(plugin)
  \/ \E name \in NamePool : UnregisterPlugin(name)
  \/ Clear
  \/ \E f \in Problems, now \in 0..MaxClock : Solve(f, now)

Spec == Init /\ [][Next]_vars

TypeOK ==
  /\ mutations \in 0..MaxMutations
  /\ clock \in 0..MaxClock
  /\ last.op \in {"new", "register", "unregister", "clear", "solve"}

\* ------------------------------------------------------------ properties

\* The text of the last solve call, as the matchers read it.
LastProblem == ProblemOf(last.text)

\* What the i-th registered plugin does on that text.
ResultAt(i) == PluginSolve(plugins[i], LastProblem, last.now)

\* A plugin outcome that is a real hit: a result other than the numeric 0
\* without an invariant.
ZeroUntagged(r) ==
  r.kind = "result" /\ r.result.answer = Num(0) /\ r.result.invariantUsed = NullTag

IsHit(r) == r.kind = "result" /\ ~ZeroUntagged(r)

Hits == {i \in 1..Len(plugins) : IsHit(ResultAt(i))}

FirstHit == CHOOSE i \in Hits : \A j \in Hits : i <= j

RemoveAt(q, i) == SubSeq(q, 1, i - 1) \o SubSeq(q, i + 1, Len(q))

NamesUpTo(k) == SubSeq(getPluginNames(plugins), 1, k)

\* C1. First match wins: solve returns the outcome of the earliest plugin in
\* registry order whose outcome is a hit, having called the plugins up to
\* that one and none after it; with no hit it has called them all.
C1_FirstMatchWins ==
  last.op = "solve" =>
    IF Hits # {}
    THEN /\ last.outcome = ResultAt(FirstHit).result
         /\ last.invoked = NamesUpTo(FirstHit)
    ELSE last.invoked = getPluginNames(plugins)

\* Two registered plugins would both claim the text; the earlier one answered.
C1_Witness ==
  /\ last.op = "solve"
  /\ Cardinality(Hits) >= 2
  /\ last.outcome.invariantUsed = POLYNOMIAL
  /\ Len(last.invoked) < Len(plugins)

\* C2. An outcome with answer exactly the number 0 and no invariant is
\* treated like none: the call returns what it returns without that plugin.
\* Every other non-null outcome of a plugin that was called, one with answer
\* 0 and an invariant included, is returned at once.
C2_ZeroUntaggedSkipped ==
  last.op = "solve" =>
    \A i \in 1..Len(last.invoked) :
      /\ last.invoked[i] = plugins[i].name
      /\ ZeroUntagged(ResultAt(i)) =>
           LET alone == solve(RemoveAt(plugins, i), LastProblem, last.now)
           IN /\ alone.outcome = last.outcome
              /\ alone.invoked = RemoveAt(last.invoked, i)
      /\ IsHit(ResultAt(i)) =>
           /\ i = Len(last.invoked)
           /\ last.outcome = ResultAt(i).result

\* A legacy zero was passed over and a tagged 0 (Lucas, 10 choose 5 mod 7)
\* was then returned.
C2_Witness ==
  /\ last.op = "solve"
  /\ \E i \in 1..(Len(last.invoked) - 1) : ZeroUntagged(ResultAt(i))
  /\ last.outcome.answer = Num(0)
  /\ last.outcome.invariantUsed = NUMBER_THEORY

NoHit == last.op = "solve" /\ Hits = {}

HasWarning(logs) == \E k \in 1..Len(logs) : logs[k].type = "warning"

\* C3 as stated: with no hit the outcome is answer 0, no invariant, steps
\* exactly ["No deterministic invariant matched."], and a warning entry.
C3_Original ==
  NoHit =>
    /\ last.outcome.answer = Num(0)
    /\ last.outcome.invariantUsed = NullTag
    /\ last.outcome.steps = <<Text("No deterministic invariant matched.", <<>>)>>
    /\ HasWarning(last.outcome.logs)

\* C3, amended. With no hit the outcome is answer 0, no invariant, a warning
\* entry in the logs, and steps exactly the one message "No deterministic
\* invariant found. Switching to stochastic logic engine."
C3_NoMatchSentinel ==
  NoHit =>
    /\ last.outcome.answer = Num(0)
    /\ last.outcome.invariantUsed = NullTag
    /\ last.outcome.steps =
         <<Text("No deterministic invariant found. Switching to stochastic logic engine.", <<>>)>>
    /\ HasWarning(last.outcome.logs)

\* The apples text went through all eight built-in plugins unclaimed.
C3_Witness ==
  /\ NoHit
  /\ last.text = ApplesText.text
  /\ Len(last.invoked) >= 8

\* C4. solve does not throw when a plugin does; the outcome, and the plugins
\* called besides the thrower, are those of the same call on the registry
\* without the throwing plugin.
C4_ThrowAbsorbed ==
  last.op = "solve" =>
    /\ ~last.threw
    /\ \A i \in 1..Len(plugins) :
         ResultAt(i).kind = "throw" =>
           LET alone == solve(RemoveAt(plugins, i), LastProblem, last.now)
           IN /\ alone.outcome = last.outcome
              /\ ~alone.threw
              /\ i <= Len(last.invoked) => alone.invoked = RemoveAt(last.invoked, i)

\* A plugin threw and a later plugin's outcome was returned.
C4_Witness ==
  /\ last.op = "solve"
  /\ \E i \in 1..(Len(last.invoked) - 1) : ResultAt(i).kind = "throw"
  /\ last.outcome.invariantUsed # NullTag

SomeInvokedThrew ==
  /\ last.op = "solve"
  /\ \E i \in 1..Len(last.invoked) : ResultAt(i).kind = "throw"

\* The log entries of the outcome that are the returning plugin's own, or
\* the no-match warning.
OwnLogs ==
  IF Hits # {} THEN ResultAt(FirstHit).result.logs
  ELSE <<createLog(Text("Analysis: Deterministic bypass. Engaging Gemini engine.", <<>>),
                   "warning", last.now)>>

\* C5 as stated: when a called plugin throws, the returned outcome holds a
\* log entry recording that failure, an entry besides the returning
\* plugin's own and the no-match warning.
C5_Original ==
  SomeInvokedThrew =>
    \E k \in 1..Len(last.outcome.logs) :
      \A j \in 1..Len(OwnLogs) : last.outcome.logs[k] # OwnLogs[j]

\* C5, amended. When a called plugin throws, nothing is logged: the logs of
\* the returned outcome are exactly the returning plugin's own, or the single
\* no-match warning.
C5_ThrowNotLogged == SomeInvokedThrew => last.outcome.logs = OwnLogs

\* The built-in combinatorial plugin threw (n = 0) and the call went on.
C5_Witness ==
  /\ SomeInvokedThrew
  /\ last.text = EmptySetText.text
  /\ "combinatorial" \in {last.invoked[i] : i \in 1..Len(last.invoked)}

\* C6. No two entries of the listing share a name, and after register(p) the
\* one entry under p's name is p, which getPlugin returns.
C6_RegistryUniqueness ==
  /\ \A i, j \in 1..Len(plugins) : plugins[i].name = plugins[j].name => i = j
  /\ last.op = "register" =>
       /\ getPlugin(plugins, last.plugin.name) = last.plugin
       /\ Cardinality({i \in 1..Len(plugins) : getAllPlugins(plugins)[i].name = last.plugin.name}) = 1
       /\ Cardinality({i \in 1..Len(plugins) : getPluginNames(plugins)[i] = last.plugin.name}) = 1

\* A plugin was registered under a name that was registered already.
C6_Witness ==
  /\ last.op = "register"
  /\ last.had
  /\ last.plugin = Plugin("polynomial", "Thrower")

Others(map, name) == SelectSeq(map, LAMBDA e : e.name # name)

\* C7. register keeps the listing's names in place when the name exists and
\* appends the name when it is new, the other entries untouched; unregister
\* removes that name alone, keeps the order of the rest, and returns whether
\* the name was registered; both listings give the same order.
C7_Step ==
  /\ last'.op = "register" =>
       /\ getPluginNames(plugins') =
            IF hasPlugin(plugins, last'.plugin.name) THEN getPluginNames(plugins)
            ELSE Append(getPluginNames(plugins), last'.plugin.name)
       /\ Others(plugins', last'.plugin.name) = Others(plugins, last'.plugin.name)
  /\ last'.op = "unregister" =>
       /\ getAllPlugins(plugins') = Others(plugins, last'.plugin.name)
       /\ last'.ret = (\E i \in 1..Len(plugins) : plugins[i].name = last'.plugin.name)
  /\ \A i \in 1..Len(plugins') :
       getPluginNames(plugins')[i] = getAllPlugins(plugins')[i].name

\* C7: every step keeps the registry order as C7_Step says.
C7_RegistryOrder == [][C7_Step]_vars

\* After an unregister, a plugin was registered under a name that was there,
\* ahead of other names.
C7_Witness ==
  /\ last.op = "register"
  /\ last.had
  /\ Len(plugins) = 7
  /\ IndexOf(plugins, last.plugin.name, 1) < Len(plugins)

\* C8. A freshly constructed solver lists exactly eight plugins, in the
\* order Spectral, Polynomial, NumberTheory, Combinatorial, Diophantine,
\* Sequences, RootDynamics, FunctionalEquation.
C8_InitialOrder ==
  last.op = "new" =>
    /\ getPluginNames(plugins) =
         <<"spectral-zeta", "polynomial", "number-theory", "combinatorial",
           "diophantine", "sequences", "root-dynamics", "functional-equation">>
    /\ [i \in 1..Len(plugins) |-> invariantType(getAllPlugins(plugins)[i])] =
         <<SPECTRAL_ZETA, POLYNOMIAL, NUMBER_THEORY, COMBINATORIAL,
           DIOPHANTINE, SEQUENCES, ROOT_DYNAMICS, FUNCTIONAL_EQ>>

\* The solver as constructed, before any call.
C8_Witness == last.op = "new" /\ mutations = 0 /\ Len(plugins) = 8

\* C9 as stated: in every state after construction the listing is the one
\* established at construction.
C9_Original == plugins = initializePlugins

\* C9, amended. solve leaves the registry as it was; the listing changes,
\* after construction too, by registerPlugin, unregisterPlugin and the
\* registry got from getRegistry, and by nothing else.
C9_Step ==
  /\ last'.op = "solve" => plugins' = plugins
  /\ plugins' # plugins => last'.op \in {"register", "unregister", "clear"}

\* C9, amended: every step changes the registry only as C9_Step allows.
C9_SolveReadOnly == [][C9_Step]_vars

\* solve ran on a registry changed after construction.
C9_Witness ==
  /\ last.op = "solve"
  /\ mutations > 0
  /\ plugins # initializePlugins

\* An outcome without the times of its log entries.
StripTime(o) ==
  [answer |-> o.answer, invariantUsed |-> o.invariantUsed, steps |-> o.steps,
   logs |-> [k \in 1..Len(o.logs) |-> [message |-> o.logs[k].message, type |-> o.logs[k].type]]]

SameTextAgain == last.op = "solve" /\ last'.op = "solve" /\ last'.text = last.text

\* C10 as stated: two solve calls on the same text and registry return
\* outcomes equal in answer, invariant, steps and log entries, whenever run.
C10_Original == [][SameTextAgain => last'.outcome = last.outcome]_vars

\* C10, amended. Two solve calls on the same text and registry return
\* outcomes equal in answer, invariant, steps and the messages and severities
\* of the log entries; the entries' timestamps are the times of the calls.
C10_Step ==
  SameTextAgain =>
    /\ StripTime(last'.outcome) = StripTime(last.outcome)
    /\ last'.invoked = last.invoked
    /\ \A k \in 1..Len(last'.outcome.logs) : last'.outcome.logs[k].timestamp = last'.now

\* C10, amended: every repeated solve call agrees with the one before it as
\* C10_Step says.
C10_DeterministicButTime == [][C10_Step]_vars

\* The same text was solved twice in a row, the second time later.
C10_Witness ==
  /\ last.op = "solve"
  /\ last.since >= 0
  /\ last.since < last.now

\* ------------------------------------------------- concurrent solve calls
\* solve is an async function without an await: the runtime runs each call
\* to its return.  The calls are modelled one plugin at a time, the finest
\* interleaving a scheduler could produce; every coarser one is among them.

\* How many solve calls are in flight at once.
MaxCalls == 2

\* The texts the concurrent calls are given: the first plugin but one hits,
\* a plugin throws and nothing hits, nothing hits.
ConcurrentProblems == {BothText, EmptySetText, ApplesText}

\* The registries the solver may hold when the calls arrive.
RegistryPool ==
  { initializePlugins,
    register(initializePlugins, Plugin("polynomial", "Thrower")),
    unregister(initializePlugins, "polynomial") }

\* A call not yet made.
IdleCall ==
  [state |-> "idle", text |-> "", list |-> <<>>, i |-> 0,
   outcome |-> NoOutcome, at |-> -1, overlapped |-> FALSE]

\* The other calls that are between their first line and their return.
Running(c) == {d \in DOMAIN calls \ {c} : calls[d].state = "running"}

\* The first line of solve: const plugins = this.registry.getAllPlugins()
BeginSolve(c, f) ==
  /\ calls[c].state = "idle"
  /\ calls' = [calls EXCEPT ![c] =
                 [IdleCall EXCEPT !.state = "running", !.text = f.text,
                                  !.list = getAllPlugins(plugins), !.i = 1,
                                  !.overlapped = Running(c) # {}]]
  /\ UNCHANGED <<plugins, clock, mutations, last, app, unit, diag>>

\* What one turn of the loop, or the return after it, makes of a call.
stepCall(call, now) ==
  IF call.i > Len(call.list)
  THEN [call EXCEPT !.state = "done", !.outcome = Fallback(now), !.at = now]
  ELSE LET r == PluginSolve(call.list[call.i], ProblemOf(call.text), now)
       IN IF Accepted(r)
          THEN [call EXCEPT !.state = "done", !.outcome = r.result, !.at = now]
          ELSE [call EXCEPT !.i = @ + 1]

\* One turn of the loop with the loop's position kept on the solver: a turn
\* of one call moves every call in flight on.
StepSolveShared(c) ==
  /\ calls[c].state = "running"
  /\ calls' = [d \in DOMAIN calls |->
                 IF d = c
                 THEN [stepCall(calls[c], clock) EXCEPT !.overlapped = @ \/ Running(c) # {}]
                 ELSE IF calls[d].state = "running"
                 THEN [calls[d] EXCEPT !.i = @ + 1]
                 ELSE calls[d]]
  /\ UNCHANGED <<plugins, clock, mutations, last, app, unit, diag>>

\* One turn of the loop of call c: the next plugin of its list is tried.
StepSolve(c) ==
  /\ calls[c].state = "running"
  /\ calls' = [calls EXCEPT ![c] =
                 [stepCall(calls[c], clock) EXCEPT !.overlapped = @ \/ Running(c) # {}]]
  /\ UNCHANGED <<plugins, clock, mutations, last, app, unit, diag>>

\* The wall clock moves on.
Tick ==
  /\ clock < MaxClock
  /\ clock' = clock + 1
  /\ UNCHANGED <<plugins, mutations, last, calls, app, unit, diag>>

InitConcurrent ==
  /\ plugins \in RegistryPool
  /\ clock = 0
  /\ mutations = 0
  /\ last = Constructed
  /\ calls = [c \in 1..MaxCalls |-> IdleCall]
  /\ app = AppIdle
  /\ unit = NoUnit
  /\ diag = NoDiag

NextConcurrent ==
  \/ \E c \in 1..MaxCalls, f \in ConcurrentProblems : BeginSolve(c, f)
  \/ \E c \in 1..MaxCalls : StepSolve(c)
  \/ Tick

SpecConcurrent == InitConcurrent /\ [][NextConcurrent]_vars

\* C11. Whatever the interleaving, a step of a solve call leaves the
\* registry and every other call as they were, and a call that returns
\* returns the outcome solve gives on that text when it runs alone.
C11_Step ==
  \A c \in DOMAIN calls :
    calls'[c] # calls[c] =>
      /\ plugins' = plugins
      /\ \A d \in DOMAIN calls \ {c} : calls'[d] = calls[d]
      /\ calls'[c].state = "done" =>
           calls'[c].outcome = solve(plugins, ProblemOf(calls'[c].text), calls'[c].at).outcome

\* C11: every step of every interleaving is as C11_Step says.
C11_ConcurrentSolve == [][C11_Step]_vars

\* Two calls on different texts have returned, each having taken a turn
\* while another was in flight.
C11_Witness ==
  \E c, d \in DOMAIN calls :
    /\ c # d
    /\ calls[c].state = "done" /\ calls[d].state = "done"
    /\ calls[c].text # calls[d].text
    /\ calls[c].overlapped /\ calls[d].overlapped
    /\ calls[c].outcome.invariantUsed # NullTag

\* ------------------------------------------------- the fallback collaborator

\* What the remote service and its client library do during one call: the
\* client's constructor throws; the request is rejected (network,
\* authentication); the response text is not JSON; the text is missing;
\* the text is the JSON asked for, without or with grounding chunks.
ServiceBehaviours ==
  {"clientThrows", "network", "auth", "malformed", "empty", "answer", "grounded"}

\* The SolverResult of the fallback, with its two optional fields; <<>> is
\* undefined.
FallbackOutcome(answer, invariantUsed, reasoning, steps, groundingSources, logs) ==
  [answer |-> answer, invariantUsed |-> invariantUsed, reasoning |-> reasoning,
   steps |-> steps, groundingSources |-> groundingSources, logs |-> logs]

\* problem.toLowerCase().includes('prove') || ...includes('proof')
isProofRequest(f) == f.has \cap {"prove", "proof"} # {}

\* The catch block's return.
FallbackFailure(svc, now) ==
  FallbackOutcome(NullAnswer, NullTag, <<>>,
    <<Text("Lumina traversal engine failed to reach a consensus.", <<>>)>>,
    <<>>,
    <<createLog(Text("Deduction Failure: ${error.message}", <<Str(svc)>>), "error", now)>>)

\* The return at the end of the try block; json is {} for a missing text.
FallbackSuccess(f, svc, now) ==
  FallbackOutcome(
    IF svc = "empty" THEN Str("N/A") ELSE Str("json.answer"),
    QUANTUM_FALLBACK,
    IF svc = "empty" THEN <<>> ELSE <<Text("json.reasoning", <<>>)>>,
    IF svc = "empty"
      THEN <<Text("Lumina stochastic manifold traversal complete.", <<>>)>>
      ELSE <<Text("json.steps[0]", <<>>), Text("json.steps[1]", <<>>)>>,
    IF svc = "grounded"
      THEN <<[title |-> "chunk.web.title", uri |-> "chunk.web.uri"]>>
      ELSE <<>>,
    <<createLog(
        IF isProofRequest(f)
          THEN Text("Lumina Proof Manifold successfully engaged.", <<>>)
          ELSE Text("Lumina stochastic manifold resolved query.", <<>>),
        "success", now)>>)

\* queryQuantumFallback: the client is constructed before the try block;
\* the request, JSON.parse and the reading of the chunks are inside it.
queryQuantumFallback(f, highReasoning, image, svc, now) ==
  IF svc = "clientThrows" THEN Throw
  ELSE IF svc \in {"network", "auth", "malformed"}
  THEN Return(FallbackFailure(svc, now))
  ELSE Return(FallbackSuccess(f, svc, now))

\* ------------------------------------------------------ the console (App)
\* The component holds one solver (solverRef) and serves one request at a
\* time: its button is disabled while isSolving.  It is assumed to have an
\* active file.

\* How many requests a run makes.
MaxRequests == 2

Handlers == {"handleSolve", "handleRunAnalysis", "handleRunActiveFile"}

ProofText ==
  [NoMatch EXCEPT
     !.text = "Prove that the sum of two even integers is even.",
     !.has = {"prove"}]

BlankText == [NoMatch EXCEPT !.text = "  "]

\* The texts in the input box, or the active file, when a request is made.
AppProblems == {PolynomialText, ApplesText, ProofText, BlankText}

\* !problem.trim()
TrimIsEmpty(f) == f.text \in {"", "  "}

\* !activeFile?.content
ContentIsEmpty(f) == f.text = ""

\* A tag as a condition: null and the empty string are falsy.
Truthy(tag) == tag \notin {NullTag, ""}

\* The first log entry of a request.
StartLog(h, now) ==
  createLog(
    CASE h = "handleSolve" -> Text("Initializing deduction sequence...", <<>>)
      [] h = "handleRunAnalysis" -> Text("Analyzing project ${activeFile?.name}...", <<>>)
      [] OTHER -> Text("Initializing Traversal on ${activeFile?.name}...", <<>>),
    "info", now)

\* addToHistory, which handleSolve calls for an outcome with an answer.
addToHistory(history, h, f, res, image, now) ==
  IF h = "handleSolve" /\ res.answer # NullAnswer
  THEN LET all == <<[timestamp |-> now, problem |-> f.text, result |-> res,
                     capturedImage |-> image]>> \o history
       IN SubSeq(all, 1, IF Len(all) < 50 THEN Len(all) ELSE 50)
  ELSE history

\* The handler up to its first await: the guard, the state it resets, and
\* the call of the dispatcher, or with an image of the fallback.
Request(f, image) ==
  /\ app.pc = "idle"
  /\ ~app.isSolving
  /\ app.requests < MaxRequests
  /\ LET h == app.handler
         returnsAtOnce == ~image /\ (IF h = "handleSolve" THEN TrimIsEmpty(f) ELSE ContentIsEmpty(f))
         asked == [app EXCEPT !.requests = @ + 1, !.problem = f, !.image = image,
                              !.consulted = FALSE, !.local = <<>>,
                              !.fallbackCalled = FALSE, !.service = ""]
     IN app' =
          IF returnsAtOnce THEN asked
          ELSE [asked EXCEPT
                  !.isSolving = TRUE,
                  !.result = <<>>,
                  !.allLogs = IF h = "handleSolve" THEN <<StartLog(h, clock)>>
                              ELSE @ \o <<StartLog(h, clock)>>,
                  !.consulted = ~image,
                  !.local = IF image THEN <<>> ELSE <<solve(plugins, f, clock).outcome>>,
                  !.fallbackCalled = image,
                  !.pc = IF image THEN "awaitFallback" ELSE "awaitSolve"]
  /\ UNCHANGED <<plugins, clock, mutations, last, calls, unit, diag>>

\* The handler after the dispatcher's outcome, with the fallback called
\* whatever the outcome.
AfterSolveAlways ==
  /\ app.pc = "awaitSolve"
  /\ LET localResult == app.local[1]
     IN app' = [app EXCEPT
                  !.allLogs = IF Truthy(localResult.invariantUsed) THEN @ \o localResult.logs ELSE @,
                  !.fallbackCalled = TRUE,
                  !.pc = "awaitFallback"]
  /\ UNCHANGED <<plugins, clock, mutations, last, calls, unit, diag>>

\* The handler from the dispatcher's outcome to its end or to its second
\* await: a tagged outcome is shown, an untagged one sends it to the fallback.
AfterSolve ==
  /\ app.pc = "awaitSolve"
  /\ LET localResult == app.local[1]
     IN app' =
          IF Truthy(localResult.invariantUsed)
          THEN [app EXCEPT
                  !.allLogs = @ \o localResult.logs,
                  !.result = <<localResult>>,
                  !.isSolving = FALSE,
                  !.history = addToHistory(@, app.handler, app.problem, localResult, app.image, clock),
                  !.pc = "idle"]
          ELSE [app EXCEPT !.fallbackCalled = TRUE, !.pc = "awaitFallback"]
  /\ UNCHANGED <<plugins, clock, mutations, last, calls, unit, diag>>

\* The fallback's promise settles.  Fulfilled, the handler shows the outcome
\* and ends; rejected, the await throws and the handler ends there.
FallbackSettles(svc) ==
  /\ app.pc = "awaitFallback"
  /\ LET r == queryQuantumFallback(app.problem, FALSE, app.image, svc, clock)
     IN app' =
          IF r.kind = "throw"
          THEN [app EXCEPT !.service = svc, !.pc = "rejected"]
          ELSE [app EXCEPT
                  !.service = svc,
                  !.allLogs = @ \o r.result.logs,
                  !.result = <<r.result>>,
                  !.isSolving = FALSE,
                  !.history = addToHistory(@, app.handler, app.problem, r.result, app.image, clock),
                  !.pc = "idle"]
  /\ UNCHANGED <<plugins, clock, mutations, last, calls, unit, diag>>

InitApp ==
  /\ plugins = initializePlugins
  /\ clock = 0
  /\ mutations = 0
  /\ last = Constructed
  /\ calls = NoCalls
  /\ app \in {[AppIdle EXCEPT !.handler = h] : h \in Handlers}
  /\ unit = NoUnit
  /\ diag = NoDiag

NextApp ==
  \/ \E f \in AppProblems, image \in BOOLEAN : Request(f, image)
  \/ AfterSolve
  \/ \E svc \in ServiceBehaviours : FallbackSettles(svc)
  \/ Tick

SpecApp == InitApp /\ [][NextApp]_vars

\* C12 as stated: the fallback is called only on a request on which the
\* dispatcher was consulted and returned an outcome without a tag.
C12_Original ==
  app.fallbackCalled =>
    /\ app.consulted
    /\ ~Truthy(app.local[1].invariantUsed)

\* C12, amended. On a request without a captured image the fallback is called
\* only after the dispatcher has run on the text and returned an outcome
\* without a tag, and never after a tagged outcome; on a request with a
\* captured image the dispatcher is not consulted and the fallback is called
\* directly.
C12_FallbackAfterDispatch ==
  /\ app.fallbackCalled =>
       IF app.image THEN ~app.consulted
       ELSE app.consulted /\ ~Truthy(app.local[1].invariantUsed)
  /\ app.consulted =>
       /\ ~app.image
       /\ \E now \in 0..clock : app.local = <<solve(plugins, app.problem, now).outcome>>
  /\ (app.consulted /\ app.pc # "awaitSolve" /\ Truthy(app.local[1].invariantUsed)) =>
       ~app.fallbackCalled /\ app.result = app.local
  /\ (app.pc = "awaitFallback" \/ app.service # "") => app.fallbackCalled

\* The dispatcher reported no match on a text, the fallback was called and
\* its outcome is shown.
C12_Witness ==
  /\ app.consulted
  /\ app.fallbackCalled
  /\ app.service = "answer"
  /\ app.pc = "idle"
  /\ app.result # <<>>

\* C13 as stated: the fallback never throws; on a failure of the service it
\* returns an outcome with no answer, no tag, at least one step and an
\* error entry in its logs.
C13_Original ==
  app.service # "" =>
    /\ app.pc # "rejected"
    /\ app.service \in {"clientThrows", "network", "auth", "malformed"} =>
         /\ app.result # <<>>
         /\ app.result[1].answer = NullAnswer
         /\ app.result[1].invariantUsed = NullTag
         /\ Len(app.result[1].steps) >= 1
         /\ \E k \in 1..Len(app.result[1].logs) : app.result[1].logs[k].type = "error"

\* ------------------------------------------------------- plugins, one call

\* The integers written in the texts given to the Diophantine plugin: small
\* ones, some with common factors, and the ends of the range [2, 500].
CoeffValues == {2, 3, 4, 6, 9, 11, 250, 317, 499, 500}

\* What is written before the pair: nothing, or integers outside [2, 500].
CoeffPrefixes == {<<>>, <<1, 1000>>, <<0>>}

\* A text with a Diophantine trigger phrase in which the integers written
\* are those of pre, then a and b, then 7.
DiophantineText(pre, a, b) ==
  [NoMatch EXCEPT
     !.text = "What is the largest integer that cannot be written as a sum of multiples of ${a} and ${b}? Use at most 7 coins.",
     !.has = {"largest integer", "cannot be written"},
     !.firstNumber = <<(pre \o <<a>>)[1]>>,
     !.nums = pre \o <<a, b, 7>>]

DiophantineTexts ==
  {DiophantineText(pre, a, b) : pre \in CoeffPrefixes, a \in CoeffValues, b \in CoeffValues}

\* new DiophantinePlugin().solve(problem)
DiophantineCall(f) ==
  /\ unit' = [op |-> "diophantine", problem |-> f, ret |-> DiophantineSolve(f, clock)]
  /\ UNCHANGED <<plugins, clock, mutations, last, calls, app, diag>>

\* The pair the text is about: its first two integers in [2, 500].
RECURSIVE InRange(_)
InRange(nums) ==
  IF nums = <<>> THEN <<>>
  ELSE IF Head(nums) \in 2..500 THEN <<Head(nums)>> \o InRange(Tail(nums))
  ELSE InRange(Tail(nums))

PairA == InRange(unit.problem.nums)[1]
PairB == InRange(unit.problem.nums)[2]

Coprime(a, b) == \A k \in 2..a : ~(a % k = 0 /\ b % k = 0)

\* C14 as stated: for a coprime pair the answer is a*b - a - b.
C14_Original ==
  (unit.op = "diophantine" /\ Coprime(PairA, PairB)) =>
    /\ unit.ret.kind = "result"
    /\ unit.ret.result.invariantUsed = DIOPHANTINE
    /\ unit.ret.result.answer = Num(PairA * PairB - PairA - PairB)

\* C14, amended. For a coprime pair (a, b), the first two integers in
\* [2, 500] of a triggering text, the plugin returns tag Diophantine and the
\* answer (a*b - a - b) mod modulo, which is a*b - a - b itself when that is
\* below the modulus; its last step shows the unreduced value.
C14_FrobeniusModulo ==
  (unit.op = "diophantine" /\ Coprime(PairA, PairB)) =>
    LET g == PairA * PairB - PairA - PairB
    IN /\ unit.ret.kind = "result"
       /\ unit.ret.result.invariantUsed = DIOPHANTINE
       /\ unit.ret.result.answer = Num(g % modulo)
       /\ g < modulo => unit.ret.result.answer = Num(g)
       /\ unit.ret.result.steps[3].args = <<Num(g)>>

\* A coprime pair whose Frobenius number exceeds the modulus, written after
\* integers outside the range.
C14_Witness ==
  /\ unit.op = "diophantine"
  /\ Coprime(PairA, PairB)
  /\ PairA * PairB - PairA - PairB >= modulo
  /\ unit.problem.nums[1] \notin 2..500
  /\ unit.ret.kind = "result"

\* C15. For a pair with a common factor, the first two integers in [2, 500]
\* of a triggering text, the plugin returns the string "Infinity" with tag
\* Diophantine, an outcome the dispatcher accepts.
C15_NonCoprimeInfinity ==
  (unit.op = "diophantine" /\ ~Coprime(PairA, PairB)) =>
    /\ unit.ret.kind = "result"
    /\ unit.ret.result.answer = Str("Infinity")
    /\ unit.ret.result.answer.kind # "number"
    /\ unit.ret.result.invariantUsed = DIOPHANTINE
    /\ Accepted(unit.ret)

\* A pair of different integers with a common factor.
C15_Witness ==
  /\ unit.op = "diophantine"
  /\ ~Coprime(PairA, PairB)
  /\ PairA # PairB
  /\ unit.ret.kind = "result"
  /\ unit.ret.result.answer = Str("Infinity")

\* What the combinatorial matchers read off a text: nMatch is the leftmost
\* match of /s(?:_|\[|\{)?(\d+)(?:\]|\})?|n\s*=\s*(\d+)/ in the lowercased
\* text, setNums the digit runs inside the first braces literal, elementMatch
\* the N of "set of N elements". sPattern and nEqPattern are the first match
\* of each alternative taken alone, and setSize the number of elements of the
\* set the literal denotes.
EngineCombinatorialTriggers ==
  {"subset", "intersect", "s_n", "ordered pair", "set s",
   "size of the intersection", "sum over all pairs", "union and intersection"}

\* AxiomPrimeSolver.solveCombinatorial (the monolithic engine)
solveCombinatorial(f, now) ==
  IF ~IncludesSome(f, EngineCombinatorialTriggers) THEN ReturnNull
  ELSE LET n == IF f.nMatch # <<>> THEN f.nMatch
                ELSE IF f.setNums # <<>> THEN <<f.setNums[Len(f.setNums)]>>
                ELSE f.elementMatch
       IN IF n = <<>> THEN ReturnNull
          ELSE IF n[1] - 1 < 0 THEN Throw
          ELSE LET result == n[1] * Pow(4, n[1] - 1)
               IN Return(Outcome(
                    Num(JsRem(result, modulo)),
                    COMBINATORIAL,
                    << Text("Subset Intersection Identity (S_n) for n=${n}", <<Num(n[1])>>),
                       Text("Axiomatic Mapping: Sum |A n B| = n * 4^(n-1)", <<>>),
                       Text("Reasoning: Each element i is in both A and B in 1/4 of total 2^n * 2^n pairs.", <<>>),
                       Text("Calculation: ${n} * 4^(${n}-1) = ${result}",
                            <<Num(n[1]), Num(n[1]), Num(result)>>) >>,
                    << createLog(Text("Lumina: Combinatorial manifold mapped to 4^n space", <<>>), "info", now),
                       createLog(Text("Identity resolved.", <<>>), "success", now) >>))

LiteralSetText ==
  [NoMatch EXCEPT
     !.text = "Let S = {1, 2}. Find the sum of the sizes of the intersections of all ordered pairs of subsets of S.",
     !.has = {"subset", "intersect", "ordered pair"},
     !.firstNumber = <<1>>,
     !.nums = <<1, 2>>,
     !.setNums = <<1, 2>>,
     !.setSize = <<2>>]

EvenSetText ==
  [NoMatch EXCEPT
     !.text = "Let S = {2, 4, 6}. Find the sum of the sizes of the intersections of all ordered pairs of subsets of S.",
     !.has = {"subset", "intersect", "ordered pair"},
     !.firstNumber = <<2>>,
     !.nums = <<2, 4, 6>>,
     !.setNums = <<2, 4, 6>>,
     !.setSize = <<3>>]

EllipsisSetText ==
  [NoMatch EXCEPT
     !.text = "Let S = {1, 2, ..., 10}. Find the sum of the sizes of the intersections of all ordered pairs of subsets of S.",
     !.has = {"subset", "intersect", "ordered pair"},
     !.firstNumber = <<1>>,
     !.nums = <<1, 2, 10>>,
     !.setNums = <<1, 2, 10>>,
     !.setSize = <<10>>]

ElementsText ==
  [NoMatch EXCEPT
     !.text = "For a set of 5 elements, what is the value of S_n?",
     !.has = {"s_n"},
     !.firstNumber = <<5>>,
     !.nums = <<5>>,
     !.elementMatch = <<5>>]

SubscriptText ==
  [NoMatch EXCEPT
     !.text = "Find the sum over all ordered pairs of subsets of S_4.",
     !.has = {"subset", "ordered pair"},
     !.firstNumber = <<4>>,
     !.nMatch = <<4>>,
     !.sPattern = <<4>>]

NBeforeSubscriptText ==
  [NoMatch EXCEPT
     !.text = "With n = 3, count the intersections over the subsets of S_5.",
     !.has = {"subset", "intersect"},
     !.firstNumber = <<3>>,
     !.nums = <<3>>,
     !.nMatch = <<3>>,
     !.sPattern = <<5>>,
     !.nEqPattern = <<3>>]

\* The n written in the texts of the form "... for n = <n>": up to 14, the
\* last n whose n * 4^(n-1) is below 2^31.
NValues == {0, 1, 2, 3, 7, 12, 14}

CountText(n) ==
  [NoMatch EXCEPT
     !.text = "Count the intersections of all ordered pairs of subsets for n = ${n}.",
     !.has = {"subset", "intersect", "ordered pair"},
     !.firstNumber = <<n>>,
     !.nums = <<n>>,
     !.nMatch = <<n>>,
     !.nEqPattern = <<n>>]

CombinatorialTexts ==
  {LiteralSetText, EvenSetText, EllipsisSetText, ElementsText, SubscriptText,
   NBeforeSubscriptText, ApplesText}
    \cup {CountText(n) : n \in NValues}

\* new CombinatorialPlugin().solve(problem)
CombinatorialCall(f) ==
  /\ unit' = [op |-> "combinatorial", problem |-> f, ret |-> CombinatorialSolve(f, clock)]
  /\ UNCHANGED <<plugins, clock, mutations, last, calls, app, diag>>

\* new AxiomPrimeSolver().solveCombinatorial(problem)
EngineCombinatorialCall(f) ==
  /\ unit' = [op |-> "solveCombinatorial", problem |-> f, ret |-> solveCombinatorial(f, clock)]
  /\ UNCHANGED <<plugins, clock, mutations, last, calls, app, diag>>

InitPlugins ==
  /\ plugins = initializePlugins
  /\ clock = 0
  /\ mutations = 0
  /\ last = Constructed
  /\ calls = NoCalls
  /\ app = AppIdle
  /\ unit = NoUnit
  /\ diag = NoDiag


\* The n the text gives: the S_n pattern first, then the n= pattern, then the
\* size of the literal set, then "set of N elements".
ResolvedN(f) ==
  IF f.sPattern # <<>> THEN f.sPattern
  ELSE IF f.nEqPattern # <<>> THEN f.nEqPattern
  ELSE IF f.setSize # <<>> THEN f.setSize
  ELSE f.elementMatch

CombinatorialOps == {"combinatorial", "solveCombinatorial"}

\* C19 as stated: n is the first of the S_n pattern, the n= pattern, the
\* cardinality of the literal set and the "set of N elements" phrasing that
\* the text has, and the text about S = {1, 2} gets tag Combinatorial and
\* the answer 8.
C19_Original ==
  (/\ unit.op \in CombinatorialOps
   /\ ResolvedN(unit.problem) # <<>>
   /\ ResolvedN(unit.problem)[1] >= 1) =>
    /\ unit.ret.kind = "result"
    /\ unit.ret.result.invariantUsed = COMBINATORIAL
    /\ unit.ret.result.steps[1].args = <<Num(ResolvedN(unit.problem)[1])>>
    /\ unit.problem = LiteralSetText => unit.ret.result.answer = Num(8)

\* C20 as stated: for every n >= 0 read off a triggering text the outcome
\* has tag Combinatorial and the answer n * 4^(n-1) modulo the modulus
\* (0 for n = 0).
C20_Original ==
  (/\ unit.op \in CombinatorialOps
   /\ unit.problem.nMatch # <<>>) =>
    LET n == unit.problem.nMatch[1]
    IN /\ unit.ret.kind = "result"
       /\ unit.ret.result.invariantUsed = COMBINATORIAL
       /\ unit.ret.result.answer =
            Num(IF n = 0 THEN 0 ELSE (n * Pow(4, n - 1)) % modulo)

\* -------------------------------------------------- Fraction, by its calls

\* The Fraction objects a caller holds at one time.
MaxObjects == 3

\* The integers a caller constructs Fractions from.
Numerators == -2..2
Denominators == -2..2

\* unit.heap holds the Fraction objects made so far, in the order of their
\* construction; this and other are the positions of the operands of the
\* last call (0 for none), n and d the arguments of the last constructor
\* call, threw whether the call threw and error the message of its Error.
FractionIdle ==
  [op |-> "none", heap |-> <<>>, n |-> 0, d |-> 1, this |-> 0, other |-> 0,
   threw |-> FALSE, error |-> "", shown |-> <<>>]

\* What a call leaves: the new object after the ones there were, or the
\* Error of the constructor and no new object.
Made(op, n, d, i, j, r) ==
  [op |-> op, n |-> n, d |-> d, this |-> i, other |-> j,
   threw |-> (r = DivisionByZero),
   error |-> IF r = DivisionByZero THEN "Denominator cannot be zero" ELSE "",
   heap |-> IF r = DivisionByZero THEN unit.heap ELSE Append(unit.heap, r),
   shown |-> <<>>]

\* new Fraction(n, d); new Fraction(n) is the call with d = 1.
NewFraction(n, d) ==
  /\ Len(unit.heap) < MaxObjects
  /\ unit' = Made("new", n, d, 0, 0, Fraction(n, d))
  /\ UNCHANGED <<plugins, clock, mutations, last, calls, app, diag>>

\* heap[i].add(heap[j])
FractionAdd(i, j) ==
  /\ Len(unit.heap) < MaxObjects
  /\ unit' = Made("add", 0, 1, i, j, add(unit.heap[i], unit.heap[j]))
  /\ UNCHANGED <<plugins, clock, mutations, last, calls, app, diag>>

\* heap[i].sub(heap[j])
FractionSub(i, j) ==
  /\ Len(unit.heap) < MaxObjects
  /\ unit' = Made("sub", 0, 1, i, j, sub(unit.heap[i], unit.heap[j]))
  /\ UNCHANGED <<plugins, clock, mutations, last, calls, app, diag>>

\* heap[i].mul(heap[j])
FractionMul(i, j) ==
  /\ Len(unit.heap) < MaxObjects
  /\ unit' = Made("mul", 0, 1, i, j, mul(unit.heap[i], unit.heap[j]))
  /\ UNCHANGED <<plugins, clock, mutations, last, calls, app, diag>>

\* heap[i].div(heap[j])
FractionDiv(i, j) ==
  /\ Len(unit.heap) < MaxObjects
  /\ unit' = Made("div", 0, 1, i, j, div(unit.heap[i], unit.heap[j]))
  /\ UNCHANGED <<plugins, clock, mutations, last, calls, app, diag>>

\* heap[i].toString()
FractionToString(i) ==
  /\ unit' = [FractionIdle EXCEPT !.op = "toString", !.heap = unit.heap, !.this = i,
                                   !.shown = <<toString(unit.heap[i])>>]
  /\ UNCHANGED <<plugins, clock, mutations, last, calls, app, diag>>

InitFraction ==
  /\ plugins = initializePlugins
  /\ clock = 0
  /\ mutations = 0
  /\ last = Constructed
  /\ calls = NoCalls
  /\ app = AppIdle
  /\ unit = FractionIdle
  /\ diag = NoDiag

NextFraction ==
  \/ \E n \in Numerators, d \in Denominators : NewFraction(n, d)
  \/ \E i, j \in 1..Len(unit.heap) : FractionAdd(i, j)
  \/ \E i, j \in 1..Len(unit.heap) : FractionSub(i, j)
  \/ \E i, j \in 1..Len(unit.heap) : FractionMul(i, j)
  \/ \E i, j \in 1..Len(unit.heap) : FractionDiv(i, j)
  \/ \E i \in 1..Len(unit.heap) : FractionToString(i)

SpecFraction == InitFraction /\ [][NextFraction]_vars

FractionOps == {"new", "add", "sub", "mul", "div", "toString"}

\* Lowest terms with the sign on the numerator; common factors are looked
\* for by trial division.
Normalized(x) ==
  /\ x.denominator > 0
  /\ \A k \in 2..x.denominator : ~(x.numerator % k = 0 /\ x.denominator % k = 0)
  /\ x.numerator = 0 => x.denominator = 1

SameRational(x, y) == x.numerator * y.denominator = y.numerator * x.denominator

\* C16. Every Fraction made by the constructor with a non-zero denominator
\* of either sign, or by a chain of add, sub, mul and div, is normalized:
\* denominator > 0, numerator and denominator coprime, zero stored as 0/1;
\* the constructor's value denotes n/d, and two Fractions denoting the same
\* rational have the same numerator and denominator.
C16_FractionNormalized ==
  unit.op \in FractionOps =>
    /\ \A i \in 1..Len(unit.heap) : Normalized(unit.heap[i])
    /\ \A i, j \in 1..Len(unit.heap) :
         SameRational(unit.heap[i], unit.heap[j]) => unit.heap[i] = unit.heap[j]
    /\ (unit.op = "new" /\ unit.d # 0) =>
         /\ ~unit.threw
         /\ SameRational(unit.heap[Len(unit.heap)],
                         [numerator |-> unit.n, denominator |-> unit.d])

\* A quotient by a negative Fraction whose unreduced products have a common
\* factor, both operands being results of earlier calls.
C16_Witness ==
  /\ unit.op = "div"
  /\ ~unit.threw
  /\ unit.heap[unit.other].numerator < 0
  /\ unit.this # unit.other
  /\ gcdLoop(Abs(unit.heap[unit.this].numerator * unit.heap[unit.other].denominator),
             Abs(unit.heap[unit.this].denominator * unit.heap[unit.other].numerator)) > 1
  /\ unit.heap[Len(unit.heap)].denominator > 1

\* C17. A constructor call with denominator 0, and a.div(b) with b's
\* numerator 0, throw the Error "Denominator cannot be zero"; no Fraction is
\* made and the objects there were, the operands among them, are as before.
C17_Step ==
  (\/ unit'.op = "new" /\ unit'.d = 0
   \/ unit'.op = "div" /\ unit.heap[unit'.other].numerator = 0) =>
    /\ unit'.threw
    /\ unit'.error = "Denominator cannot be zero"
    /\ unit'.heap = unit.heap

C17_DivisionByZero == [][C17_Step]_vars

\* A division of a non-zero Fraction by zero has thrown.
C17_Witness ==
  /\ unit.op = "div"
  /\ unit.threw
  /\ unit.heap[unit.other].numerator = 0
  /\ unit.heap[unit.this].numerator # 0

\* ------------------------------------------------ the diagnostics harness

\* A tag as a value an assertion compares: null, or the tag's string.
TagValue(tag) == IF tag = NullTag THEN NullAnswer ELSE Str(tag)

CheckTag(tag) == [field |-> "invariantUsed", expected |-> TagValue(tag)]
CheckAnswer(n) == [field |-> "answer", expected |-> Num(n)]

\* The cases of runDiagnostics in the order of the source: name, problem
\* text and the assertEquals calls of the body, in order.
DiagnosticCases ==
  << [name |-> "POLYNOMIAL: Basic Quadratic Reversion",
      problem |-> "Quadratic polynomials P(x) and Q(x) have leading coefficients 2 and -2. They pass through (16,54) and (20,53). Find P(0)+Q(0).",
      checks |-> <<CheckTag(POLYNOMIAL), CheckAnswer(116)>>],
     [name |-> "DIOPHANTINE: Frobenius Coin (Chicken McNugget)",
      problem |-> "What is the largest integer that cannot be written as a sum of multiples of 6 and 11?",
      checks |-> <<CheckTag(DIOPHANTINE), CheckAnswer(49)>>],
     [name |-> "DIOPHANTINE: Frobenius (Alternative Phrasing)",
      problem |-> "Identify the greatest impossible sum using denominations of 7 and 13.",
      checks |-> <<CheckAnswer(71)>>],
     [name |-> "COMBINATORIAL: Subset Intersection S_n (n=2)",
      problem |-> "Let S = {1, 2}. Find the sum of the sizes of the intersections of all ordered pairs of subsets of S.",
      checks |-> <<CheckTag(COMBINATORIAL), CheckAnswer(8)>>],
     [name |-> "COMBINATORIAL: Set n elements phrasing",
      problem |-> "For a set of 5 elements, what is the value of S_n?",
      checks |-> <<CheckAnswer(1280)>>],
     [name |-> "MODULAR: Binary Exponentiation",
      problem |-> "What is 3^4 mod 10?",
      checks |-> <<CheckAnswer(1)>>],
     [name |-> "GEOMETRIC: Tangent Spheres Area",
      problem |-> "Three spheres with radii of 3, 4, and 5 are mutually tangent. Find the area of the triangle formed by their centers.",
      checks |-> <<CheckTag(GEOMETRIC), CheckAnswer(27)>>],
     [name |-> "REPEATING_DECIMAL: Period 2",
      problem |-> "Repeating decimal with period length of two digits.",
      checks |-> <<CheckTag(REPEATING_DECIMAL), CheckAnswer(3386)>>],
     [name |-> "FALLBACK: No Invariant Match",
      problem |-> "How many apples are in a basket if I have 2 and give 1 away?",
      checks |-> <<CheckTag(NullTag), CheckAnswer(0)>>] >>

\* What this.solver.solve(problem) resolves to, as far as the cases read it.
\* The engine's solve catches what its solvers throw and always returns an
\* outcome; which one is left open here, the harness being there to find
\* out: the no-match outcome, or one of the tags the cases name with one of
\* two answers.
Response(tag, answer) == [invariantUsed |-> tag, answer |-> answer]

NoMatchResponse == Response(NullTag, Num(0))

CaseTag(c) ==
  IF c.checks[1].field = "invariantUsed" /\ c.checks[1].expected # NullAnswer
  THEN c.checks[1].expected.str
  ELSE POLYNOMIAL

SolverResponses(c) ==
  LET wanted == c.checks[Len(c.checks)].expected
  IN {NoMatchResponse,
      Response(CaseTag(c), wanted),
      Response(CaseTag(c), Num(wanted.num + 1))}

\* res.invariantUsed or res.answer
Read(res, field) ==
  IF field = "invariantUsed" THEN TagValue(res.invariantUsed) ELSE res.answer

\* assertEquals: nothing, or the Error thrown with its expected and actual.
assertEquals(actual, expected) ==
  IF actual # expected
  THEN << [expected |-> expected, actual |-> actual,
           message |-> Text("Expected ${expected} but received ${actual}",
                            <<expected, actual>>)] >>
  ELSE <<>>

\* The body of a case: its assertions in order, up to the first that throws.
RECURSIVE CaseBody(_, _)
CaseBody(checks, res) ==
  IF checks = <<>> THEN <<>>
  ELSE LET e == assertEquals(Read(res, Head(checks).field), Head(checks).expected)
       IN IF e # <<>> THEN e ELSE CaseBody(Tail(checks), res)

\* runTest that reports 'passed' whatever the body threw.
runTestUncaught(name, thrown) ==
  [name |-> name, status |-> "passed", expected |-> Str("match"),
   actual |-> Str("match"), error |-> <<>>]

\* runTest(name, fn), thrown being what await fn() threw, if anything.
runTest(name, thrown) ==
  IF thrown = <<>>
  THEN [name |-> name, status |-> "passed", expected |-> Str("match"),
        actual |-> Str("match"), error |-> <<>>]
  ELSE [name |-> name, status |-> "failed", expected |-> thrown[1].expected,
        actual |-> thrown[1].actual, error |-> <<thrown[1].message>>]

DiagIdle ==
  [pc |-> "idle", results |-> <<>>, responses |-> <<>>, report |-> <<>>]

\* runDiagnostics is entered: const results = [].
StartDiagnostics ==
  /\ diag.pc = "idle"
  /\ diag' = [diag EXCEPT !.pc = "running"]
  /\ UNCHANGED <<plugins, clock, mutations, last, calls, app, unit>>

\* results.push(await this.runTest(name, body)) for the next case, the
\* solver resolving to res.
RunCase(res) ==
  /\ diag.pc = "running"
  /\ Len(diag.results) < Len(DiagnosticCases)
  /\ LET c == DiagnosticCases[Len(diag.results) + 1]
     IN /\ res \in SolverResponses(c)
        /\ diag' = [diag EXCEPT !.results = Append(@, runTest(c.name, CaseBody(c.checks, res))),
                                !.responses = Append(@, res)]
  /\ UNCHANGED <<plugins, clock, mutations, last, calls, app, unit>>

RECURSIVE CountPassed(_)
CountPassed(results) ==
  IF results = <<>> THEN 0
  ELSE (IF Head(results).status = "passed" THEN 1 ELSE 0) + CountPassed(Tail(results))

\* The report that is returned after the last case.
Report ==
  /\ diag.pc = "running"
  /\ Len(diag.results) = Len(DiagnosticCases)
  /\ LET passCount == CountPassed(diag.results)
     IN diag' = [diag EXCEPT !.pc = "done",
                             !.report = << [timestamp |-> clock,
                                            totalTests |-> Len(diag.results),
                                            passCount |-> passCount,
                                            failCount |-> Len(diag.results) - passCount,
                                            results |-> diag.results] >>]
  /\ UNCHANGED <<plugins, clock, mutations, last, calls, app, unit>>

AllResponses == UNION {SolverResponses(DiagnosticCases[k]) : k \in 1..Len(DiagnosticCases)}

InitDiagnostics ==
  /\ plugins = initializePlugins
  /\ clock = 0
  /\ mutations = 0
  /\ last = Constructed
  /\ calls = NoCalls
  /\ app = AppIdle
  /\ unit = NoUnit
  /\ diag = DiagIdle

NextDiagnostics ==
  \/ StartDiagnostics
  \/ \E res \in AllResponses : RunCase(res)
  \/ Report

SpecDiagnostics == InitDiagnostics /\ [][NextDiagnostics]_vars

\* Whether the outcome the solver gave meets every assertion of the case.
Meets(c, res) ==
  \A k \in 1..Len(c.checks) : Read(res, c.checks[k].field) = c.checks[k].expected

FirstUnmet(c, res) ==
  CHOOSE k \in 1..Len(c.checks) :
    /\ Read(res, c.checks[k].field) # c.checks[k].expected
    /\ \A j \in 1..(k - 1) : Read(res, c.checks[j].field) = c.checks[j].expected

\* C18. runDiagnostics runs the cases of its list in their order, whatever
\* the earlier ones did: the k-th result is that of the k-th case, 'passed'
\* when the solver's outcome meets its assertions and otherwise 'failed'
\* with the expected and actual values of the first assertion not met; the
\* report is made after the last case and has totalTests = number of cases
\* = passCount + failCount, passCount being the number of 'passed' results.
C18_Diagnostics ==
  /\ Len(diag.results) <= Len(DiagnosticCases)
  /\ \A k \in 1..Len(diag.results) :
       LET c == DiagnosticCases[k]
           r == diag.results[k]
           res == diag.responses[k]
       IN /\ r.name = c.name
          /\ r.status = IF Meets(c, res) THEN "passed" ELSE "failed"
          /\ ~Meets(c, res) =>
               /\ r.expected = c.checks[FirstUnmet(c, res)].expected
               /\ r.actual = Read(res, c.checks[FirstUnmet(c, res)].field)
  /\ diag.pc = "done" =>
       LET rep == diag.report[1]
       IN /\ rep.results = diag.results
          /\ Len(rep.results) = Len(DiagnosticCases)
          /\ rep.totalTests = Len(DiagnosticCases)
          /\ rep.totalTests = rep.passCount + rep.failCount
          /\ rep.passCount =
               Cardinality({k \in 1..Len(rep.results) : rep.results[k].status = "passed"})

\* A finished run in which the first case failed on its tag, a later one on
\* its answer, and the last case passed.
C18_Witness ==
  /\ diag.pc = "done"
  /\ diag.results[1].status = "failed"
  /\ diag.results[1].expected = Str(POLYNOMIAL)
  /\ diag.results[1].actual = NullAnswer
  /\ \E k \in 2..Len(diag.results) :
       /\ diag.results[k].status = "failed"
       /\ diag.results[k].expected.kind = "number"
  /\ diag.results[Len(DiagnosticCases)].status = "passed"
  /\ diag.report[1].passCount > 0
  /\ diag.report[1].failCount > 1

\* ------------------------------------------------ the Polynomial plugin

\* What the polynomial texts are written from: the two leading
\* coefficients, the two points and the target (<<>> when none is named).
LeadingCoeffs == {<<2, -2>>, <<1, 3>>, <<-3, -1>>}
PointXs == {3, 16, 20}
PointYs == {-54, 10, 53, 54}
Targets == {<<>>, <<0>>, <<5>>}

\* "Quadratic polynomials P(x) and Q(x) have leading coefficients a1 and
\* a2. They pass through (x1,y1) and (x2,y2). Find P(t)+Q(t)." and, with no
\* target, "... What is their sum at zero?".
QuadraticText(a, x1, y1, x2, y2, t) ==
  [NoMatch EXCEPT
     !.text = IF t = <<>>
              THEN "Quadratic polynomials P(x) and Q(x) have leading coefficients ${a1} and ${a2}. They pass through (${x1},${y1}) and (${x2},${y2}). What is their sum at zero?"
              ELSE "Quadratic polynomials P(x) and Q(x) have leading coefficients ${a1} and ${a2}. They pass through (${x1},${y1}) and (${x2},${y2}). Find P(${t})+Q(${t}).",
     !.has = {"quadratic", "polynomial"},
     !.coeffMatch = a,
     !.targetMatch = t,
     !.firstNumber = <<Abs(a[1])>>,
     !.nums = <<Abs(a[1]), Abs(a[2]), x1, Abs(y1), x2, Abs(y2)>> \o t \o t,
     !.points = <<<<x1, y1>>, <<x2, y2>>>>]

QuadraticTexts ==
  {QuadraticText(a, x1, y1, x2, y2, t) :
     a \in LeadingCoeffs, x1 \in {3, 16}, y1 \in {-54, 54}, x2 \in PointXs,
     y2 \in PointYs, t \in Targets}
    \cup {PolynomialText}

\* new PolynomialPlugin().solve(problem)
PolynomialCall(f) ==
  /\ unit' = [op |-> "polynomial", problem |-> f, ret |-> PolynomialSolve(f, clock)]
  /\ UNCHANGED <<plugins, clock, mutations, last, calls, app, diag>>

\* The quantities of the text the last polynomial call was given.
PolyA1 == unit.problem.coeffMatch[1]
PolyA2 == unit.problem.coeffMatch[2]
PolyX1 == unit.problem.points[1][1]
PolyY1 == unit.problem.points[1][2]
PolyX2 == unit.problem.points[2][1]
PolyY2 == unit.problem.points[2][2]
PolyT == IF unit.problem.targetMatch = <<>> THEN 0 ELSE unit.problem.targetMatch[1]

\* floor(n / d) for d # 0.
FloorDiv(n, d) == IF d < 0 THEN (-n) \div (-d) ELSE n \div d

Congruent(x, y, m) == (x - y) % m = 0

\* floor(P(t) + Q(t)) by Lagrange's form: the quadratic with leading
\* coefficient a through the two points is
\* a(t-x1)(t-x2) + y1 + (y2-y1)(t-x1)/(x2-x1).
FloorOfSum ==
  (PolyA1 + PolyA2) * (PolyT - PolyX1) * (PolyT - PolyX2) + 2 * PolyY1
    + FloorDiv(2 * (PolyY2 - PolyY1) * (PolyT - PolyX1), PolyX2 - PolyX1)

SumIsInteger ==
  (2 * (PolyY2 - PolyY1) * (PolyT - PolyX1)) % Abs(PolyX2 - PolyX1) = 0

\* C21 as stated: with x1 = x2 the slope is zero and each polynomial is
\* a*t^2 + c with c = y1 - a*x1^2, the answer being P(t) + Q(t) of these.
C21_Original ==
  (unit.op = "polynomial" /\ PolyX1 = PolyX2) =>
    /\ unit.ret.kind = "result"
    /\ unit.ret.result.invariantUsed = POLYNOMIAL
    /\ Congruent(unit.ret.result.answer.num,
                 (PolyA1 * PolyT * PolyT + PolyY1 - PolyA1 * PolyX1 * PolyX1)
                   + (PolyA2 * PolyT * PolyT + PolyY1 - PolyA2 * PolyX1 * PolyX1),
                 modulo)

\* C22. With x1 # x2 the answer is congruent modulo the modulus to
\* floor(P(t) + Q(t)), P and Q being the quadratics with leading
\* coefficients a1 and a2 through both points and t the target (0 when the
\* text names none); when P(t) + Q(t) is an integer its shown sum is that
\* integer; the text of the diagnostics gives 116, and 113 at t = 5.
C22_PolynomialFloor ==
  (unit.op = "polynomial" /\ PolyX1 # PolyX2) =>
    /\ unit.ret.kind = "result"
    /\ unit.ret.result.invariantUsed = POLYNOMIAL
    /\ Congruent(unit.ret.result.answer.num, FloorOfSum, modulo)
    /\ Abs(unit.ret.result.answer.num) < modulo
    /\ SumIsInteger => unit.ret.result.steps[5].args = <<Num(FloorOfSum)>>
    /\ unit.problem = PolynomialText => unit.ret.result.answer = Num(116)
    /\ unit.problem = QuadraticText(<<2, -2>>, 16, 54, 20, 53, <<5>>) =>
         unit.ret.result.answer = Num(113)

\* A sum that is not an integer, at a target other than 0: 113.5 at t = 5.
C22_Witness ==
  /\ unit.op = "polynomial"
  /\ unit.problem = QuadraticText(<<2, -2>>, 16, 54, 20, 53, <<5>>)
  /\ ~SumIsInteger
  /\ unit.ret.kind = "result"
  /\ unit.ret.result.answer = Num(113)

\* C30 as stated: every numeric answer of the Polynomial, Combinatorial and
\* Diophantine plugins lies in 0 .. modulo - 1.
C30_Original ==
  (/\ unit.op \in {"polynomial", "combinatorial", "diophantine"}
   /\ unit.ret.kind = "result"
   /\ unit.ret.result.answer.kind = "number") =>
    unit.ret.result.answer.num \in 0..(modulo - 1)

\* C23. add, sub, mul and div (by a non-zero Fraction) make a new Fraction
\* that denotes the exact sum, difference, product and quotient of their
\* operands, and leave the objects there were as they are; a.sub(b).add(b)
\* is a and, for b non-zero, a.div(b).mul(b) is a; toString gives "n" when
\* the denominator is 1 and "n/d" otherwise.
C23_Step ==
  /\ unit'.op \in {"add", "sub", "mul", "div"} =>
       LET a == unit.heap[unit'.this]
           b == unit.heap[unit'.other]
           num == CASE unit'.op = "add" -> a.numerator * b.denominator + b.numerator * a.denominator
                    [] unit'.op = "sub" -> a.numerator * b.denominator - b.numerator * a.denominator
                    [] unit'.op = "mul" -> a.numerator * b.numerator
                    [] unit'.op = "div" -> a.numerator * b.denominator
           den == CASE unit'.op = "div" -> a.denominator * b.numerator
                    [] OTHER -> a.denominator * b.denominator
       IN /\ unit'.threw = (unit'.op = "div" /\ b.numerator = 0)
          /\ ~unit'.threw =>
               /\ Len(unit'.heap) = Len(unit.heap) + 1
               /\ unit'.heap[Len(unit'.heap)].numerator * den
                    = num * unit'.heap[Len(unit'.heap)].denominator
               /\ Normalized(unit'.heap[Len(unit'.heap)])
          /\ \A k \in 1..Len(unit.heap) : unit'.heap[k] = unit.heap[k]
          /\ add(sub(a, b), b) = a
          /\ b.numerator # 0 => mul(div(a, b), b) = a
  /\ unit'.op = "toString" =>
       LET x == unit.heap[unit'.this]
       IN /\ unit'.heap = unit.heap
          /\ unit'.shown[1] =
               IF x.denominator = 1
               THEN Text("${numerator}", <<Num(x.numerator)>>)
               ELSE Text("${numerator}/${denominator}",
                         <<Num(x.numerator), Num(x.denominator)>>)

C23_FractionArithmetic == [][C23_Step]_vars

\* A difference of two Fractions with different denominators, neither
\* of them 1, that is itself not an integer.
C23_Witness ==
  /\ unit.op = "sub"
  /\ ~unit.threw
  /\ unit.heap[unit.this].denominator > 1
  /\ unit.heap[unit.other].denominator > unit.heap[unit.this].denominator
  /\ unit.heap[Len(unit.heap)].denominator > 1

NextPlugins ==
  \/ \E f \in DiophantineTexts : DiophantineCall(f)
  \/ \E f \in CombinatorialTexts : CombinatorialCall(f)
  \/ \E f \in CombinatorialTexts : EngineCombinatorialCall(f)
  \/ \E f \in QuadraticTexts : PolynomialCall(f)

SpecPlugins == InitPlugins /\ [][NextPlugins]_vars

\* ---------------------------------------------- the RootDynamics plugin

\* The written coefficients of x^2 [b]x [c] = 0: a sign and digits, the
\* digits of b being absent when the coefficient is written as a bare sign.
Capture(sign, hasDigits, digits) == [sign |-> sign, hasDigits |-> hasDigits, digits |-> digits]

LinearCaptures ==
  {Capture(sg, TRUE, d) : sg \in {"+", "-"}, d \in {0, 1, 5, 12}}
    \cup {Capture(sg, FALSE, 0) : sg \in {"+", "-"}}

ConstantCaptures == {Capture(sg, TRUE, d) : sg \in {"+", "-"}, d \in {0, 6, 35}}

\* What is asked of the roots, and the phrases of the plugin the question
\* contains.
RootQuestions ==
  {[text |-> "Find the sum of the roots of x^2 ${b}x ${c} = 0.",
    has |-> {"root", "sum of the roots"}],
   [text |-> "Find the sum of the squares of the roots of x^2 ${b}x ${c} = 0.",
    has |-> {"root", "sum of the squares"}],
   [text |-> "Find the product of the roots of x^2 ${b}x ${c} = 0.",
    has |-> {"root"}],
   [text |-> "Find the largest root of x^2 ${b}x ${c} = 0.",
    has |-> {"root"}]}

RootText(q, b, c) ==
  [NoMatch EXCEPT
     !.text = q.text,
     !.has = q.has,
     !.firstNumber = <<2>>,
     !.nums = <<2, c.digits, 0>>,
     !.polyMatch = <<b, c>>]

RootTexts ==
  {RootText(q, b, c) : q \in RootQuestions, b \in LinearCaptures, c \in ConstantCaptures}
    \cup {RootsText}

\* new RootDynamicsPlugin().solve(problem)
RootDynamicsCall(f) ==
  /\ unit' = [op |-> "rootDynamics", problem |-> f, ret |-> RootDynamicsSolve(f, clock)]
  /\ UNCHANGED <<plugins, clock, mutations, last, calls, app, diag>>

\* The coefficients the text writes: a bare sign stands for 1 or -1.
WrittenB ==
  LET s == unit.problem.polyMatch[1]
      m == IF s.hasDigits THEN s.digits ELSE 1
  IN IF s.sign = "-" THEN -m ELSE m

WrittenC ==
  LET s == unit.problem.polyMatch[2]
  IN IF s.sign = "-" THEN -s.digits ELSE s.digits

\* C24. For a text containing 'root' and x^2 + bx + c = 0 with signed
\* integers b and c the plugin returns tag RootDynamics with the answer -b
\* when the text has 'sum of the roots', b^2 - 2c when it has 'sum of the
\* squares' (13 for x^2 - 5x + 6 = 0), and returns none for another question.
C24_RootDynamics ==
  unit.op = "rootDynamics" =>
    /\ "sum of the roots" \in unit.problem.has =>
         /\ unit.ret.kind = "result"
         /\ unit.ret.result.invariantUsed = ROOT_DYNAMICS
         /\ unit.ret.result.answer = Num(-WrittenB)
    /\ "sum of the squares" \in unit.problem.has =>
         /\ unit.ret.kind = "result"
         /\ unit.ret.result.invariantUsed = ROOT_DYNAMICS
         /\ unit.ret.result.answer = Num(WrittenB * WrittenB - 2 * WrittenC)
    /\ unit.problem.has = {"root"} => unit.ret.kind = "null"
    /\ unit.problem = RootsText => unit.ret.result.answer = Num(13)

\* The sum of the squares for a negative b and a negative c.
C24_Witness ==
  /\ unit.op = "rootDynamics"
  /\ "sum of the squares" \in unit.problem.has
  /\ WrittenB < -1
  /\ WrittenC < 0
  /\ unit.ret.kind = "result"
  /\ unit.ret.result.answer.num > WrittenB * WrittenB

\* ---------------------------------------------- the NumberTheory plugin

\* The integers of the binomial texts: n and k on both sides of every
\* modulus, and prime moduli.
BinomialNs == {0, 1, 2, 5, 6, 7, 10, 13, 14, 20}
BinomialKs == {0, 1, 2, 3, 5, 7, 8, 14, 21}
Primes == {2, 3, 5, 7, 13}

\* "Find (n choose k) mod p.": the first pattern finds no "choose <digits>"
\* followed by a separator and digits, the second reads n, k and p.
BinomialText(n, k, pVal) ==
  [NoMatch EXCEPT
     !.text = "Find (${n} choose ${k}) mod ${p}.",
     !.binomialMatch = <<n, k, pVal>>,
     !.firstNumber = <<n>>,
     !.nums = <<n, k, pVal>>]

BinomialTexts ==
  {BinomialText(n, k, pVal) : n \in BinomialNs, k \in BinomialKs, pVal \in Primes}

\* new NumberTheoryPlugin().solve(problem)
NumberTheoryCall(f) ==
  /\ unit' = [op |-> "numberTheory", problem |-> f, ret |-> NumberTheorySolve(f, clock)]
  /\ UNCHANGED <<plugins, clock, mutations, last, calls, app, diag>>

\* The binomial coefficient itself: C(n, k) = C(n, k-1) * (n-k+1) / k.
RECURSIVE Choose(_, _)
Choose(n, k) ==
  IF k = 0 THEN 1
  ELSE IF k > n THEN 0
  ELSE (Choose(n, k - 1) * (n - k + 1)) \div k

\* C25. For "(n choose k) mod p" with p prime and n, k >= 0 the plugin
\* returns tag NumberTheory and the answer C(n, k) mod p, which is 0 when
\* k > n; (10 choose 5) mod 7 gives 0.
C25_LucasBinomial ==
  unit.op = "numberTheory" =>
    LET n == unit.problem.binomialMatch[1]
        k == unit.problem.binomialMatch[2]
        pVal == unit.problem.binomialMatch[3]
    IN /\ unit.ret.kind = "result"
       /\ unit.ret.result.invariantUsed = NUMBER_THEORY
       /\ unit.ret.result.answer = Num(Choose(n, k) % pVal)
       /\ k > n => unit.ret.result.answer = Num(0)
       /\ unit.problem = BinomialText(10, 5, 7) => unit.ret.result.answer = Num(0)

\* A coefficient with n and k of two digits in base p whose value is not a
\* multiple of p: C(14, 7) = 3432 with p = 5.
C25_Witness ==
  /\ unit.op = "numberTheory"
  /\ unit.problem = BinomialText(14, 7, 5)
  /\ unit.ret.kind = "result"
  /\ unit.ret.result.answer.num > 1
  /\ unit.ret.result.answer.num = Choose(14, 7) % 5

\* ------------------------------------------- the engine's modular solver

\* power of solveModular on bigints, with the number of passes of its loop.
RECURSIVE modularPowerLoop(_, _, _, _, _)
modularPowerLoop(res, a, b, m, passes) ==
  IF b > 0
  THEN modularPowerLoop(IF b % 2 = 1 THEN (res * a) % m ELSE res,
                        (a * a) % m, JsDiv(b, 2), m, passes + 1)
  ELSE [res |-> res, passes |-> passes]

modularPower(a, b, m) == modularPowerLoop(1, a % m, b, m, 0)

\* AxiomPrimeSolver.solveModular; modMatch is what
\* /(\d+)\s*\^\s*\{?(\d+)\}?.*?(?:mod|divided by)\s*(\d+)/i captures. A
\* remainder by 0n throws RangeError.
solveModular(f, now) ==
  IF f.modMatch = <<>> THEN ReturnNull
  ELSE LET base == f.modMatch[1]
           exp == f.modMatch[2]
           mod == f.modMatch[3]
       IN IF mod = 0 THEN Throw
          ELSE LET result == modularPower(base, exp, mod).res
               IN Return(Outcome(
                    Num(result),
                    MODULAR,
                    << Text("Fast Modular Exponentiation: ${base}^${exp} (mod ${mod})",
                            <<Num(base), Num(exp), Num(mod)>>),
                       Text("Complexity: O(log exp) traversal", <<>>),
                       Text("Algorithm: Binary Square-and-Multiply", <<>>),
                       Text("Outcome: ${result}", <<Num(result)>>) >>,
                    << createLog(Text("Lumina: Congruence class established for modulus ${mod}",
                                      <<Num(mod)>>), "info", now),
                       createLog(Text("Fast traversal successful.", <<>>), "success", now) >>))

Bases == {0, 1, 2, 3, 7, 10}
Exponents == {0, 1, 2, 4, 5, 8}
Moduli == {1, 2, 7, 10, 13}

\* "What is b^e mod m?"
ModularText(b, e, m) ==
  [NoMatch EXCEPT
     !.text = "What is ${b}^${e} mod ${m}?",
     !.firstNumber = <<b>>,
     !.nums = <<b, e, m>>,
     !.modMatch = <<b, e, m>>]

ModularTexts == {ModularText(b, e, m) : b \in Bases, e \in Exponents, m \in Moduli}

\* new AxiomPrimeSolver().solveModular(problem)
ModularCall(f) ==
  /\ unit' = [op |-> "solveModular", problem |-> f, ret |-> solveModular(f, clock),
              passes |-> modularPower(f.modMatch[1], f.modMatch[2], f.modMatch[3]).passes]
  /\ UNCHANGED <<plugins, clock, mutations, last, calls, app, diag>>

\* floor(log2 e) + 1 for e >= 1: the number of binary digits of e.
RECURSIVE BinaryDigits(_)
BinaryDigits(e) == IF e <= 1 THEN 1 ELSE 1 + BinaryDigits(e \div 2)

\* C26 as stated: for 'b^e mod m' with b >= 0, e >= 0 and m >= 1 the answer
\* is b^e mod m, found in at most floor(log2 e) + 1 passes of the loop;
\* 3^4 mod 10 gives 1.
C26_Original ==
  unit.op = "solveModular" =>
    LET b == unit.problem.modMatch[1]
        e == unit.problem.modMatch[2]
        m == unit.problem.modMatch[3]
    IN /\ unit.ret.kind = "result"
       /\ unit.ret.result.answer = Num(Pow(b, e) % m)
       /\ e >= 1 => unit.passes <= BinaryDigits(e)
       /\ e = 0 => unit.passes = 0
       /\ unit.problem = ModularText(3, 4, 10) => unit.ret.result.answer = Num(1)

NextSolvers ==
  \/ \E f \in RootTexts : RootDynamicsCall(f)
  \/ \E f \in BinomialTexts : NumberTheoryCall(f)
  \/ \E f \in ModularTexts : ModularCall(f)

SpecSolvers == InitPlugins /\ [][NextSolvers]_vars

\* ------------------------------------------------ priority of a name

\* C27. Registering a plugin under a registered name leaves the name at its
\* position in the dispatch order, the order in which solve calls the
\* plugins; registering a name right after it was unregistered puts it
\* last, behind every other name, which keep their order.
C27_Step ==
  /\ (last'.op = "register" /\ hasPlugin(plugins, last'.plugin.name)) =>
       /\ IndexOf(plugins', last'.plugin.name, 1) = IndexOf(plugins, last'.plugin.name, 1)
       /\ getPluginNames(plugins') = getPluginNames(plugins)
  /\ (/\ last'.op = "register"
      /\ last.op = "unregister"
      /\ last.plugin.name = last'.plugin.name) =>
       /\ IndexOf(plugins', last'.plugin.name, 1) = Len(plugins')
       /\ getAllPlugins(plugins')[Len(plugins')] = last'.plugin
       /\ SubSeq(getAllPlugins(plugins'), 1, Len(plugins') - 1) = getAllPlugins(plugins)
  /\ last'.op = "solve" =>
       last'.invoked = SubSeq(getPluginNames(plugins), 1, Len(last'.invoked))

C27_ReRegistration == [][C27_Step]_vars

\* "polynomial", second at construction, was unregistered and registered
\* again: it is now the eighth, behind the seven others.
C27_Witness ==
  /\ last.op = "register"
  /\ ~last.had
  /\ last.plugin.name = "polynomial"
  /\ Len(plugins) = 8
  /\ plugins[8].name = "polynomial"
  /\ plugins[2].name = "number-theory"

\* --------------------------------------- the built-in plugins, dispatched

\* The texts handed to a freshly constructed solver.
BuiltinTexts ==
  Problems \cup CombinatorialTexts
    \cup {f \in DiophantineTexts : f.firstNumber[1] >= 2}
    \cup {f \in QuadraticTexts : f.targetMatch = <<5>>}
    \cup {f \in RootTexts : f.polyMatch[2].digits = 6}
    \cup {f \in BinomialTexts : f.binomialMatch[3] = 5}
    \cup {f \in ModularTexts : f.modMatch[3] = 10}

\* new AxiomPrimeSolver().solve(problem)
SolveBuiltins(f) ==
  /\ unit' = [op |-> "solve", problem |-> f, ret |-> solve(initializePlugins, f, clock)]
  /\ UNCHANGED <<plugins, clock, mutations, last, calls, app, diag>>

NextBuiltins == \E f \in BuiltinTexts : SolveBuiltins(f)

SpecBuiltins == InitPlugins /\ [][NextBuiltins]_vars

\* What the i-th built-in plugin does with the text of the last call.
BuiltinResult(i) == PluginSolve(initializePlugins[i], unit.problem, clock)

\* C28. With the eight built-in plugins, every outcome a plugin returns has
\* the plugin's declared invariant tag and at least one step; solve returns
\* an outcome without a tag only as the no-match outcome, and the caller's
\* test for the fallback (no tag) holds exactly when no plugin's outcome was
\* accepted.
C28_TagIffMatched ==
  unit.op = "solve" =>
    /\ \A i \in 1..Len(initializePlugins) :
         BuiltinResult(i).kind = "result" =>
           /\ BuiltinResult(i).result.invariantUsed = invariantType(initializePlugins[i])
           /\ Truthy(BuiltinResult(i).result.invariantUsed)
           /\ Len(BuiltinResult(i).result.steps) >= 1
    /\ ~Truthy(unit.ret.outcome.invariantUsed) => unit.ret.outcome = Fallback(clock)
    /\ ~Truthy(unit.ret.outcome.invariantUsed)
         <=> (\A i \in 1..Len(initializePlugins) : ~Accepted(BuiltinResult(i)))

\* A plugin's outcome with the answer 0 was accepted on its tag.
C28_Witness ==
  /\ unit.op = "solve"
  /\ unit.ret.outcome.answer = Num(0)
  /\ unit.ret.outcome.invariantUsed = POLYNOMIAL
  /\ unit.ret.invoked = <<"spectral-zeta", "polynomial">>

\* ------------------------------------------- the console, run to its end

\* The event loop resumes a handler whose awaited promise has settled, and
\* the promise of the fallback settles, fulfilled or rejected.
SpecAppFair ==
  /\ InitApp
  /\ [][NextApp]_vars
  /\ WF_vars(AfterSolve)
  /\ WF_vars(\E svc \in ServiceBehaviours : FallbackSettles(svc))

\* C29 as stated: a request started by handleSolve eventually ends with
\* isSolving false and a result shown, whatever the dispatcher and the
\* fallback did, and isSolving is true while the request is under way.
C29_Original ==
  /\ (app.handler = "handleSolve" /\ app.isSolving)
       ~> (~app.isSolving /\ app.result # <<>>)
  /\ [](app.pc \in {"awaitSolve", "awaitFallback"} => app.isSolving)
====
